---- MODULE Spec2Model ----
(***************************************************************************)
(* A model of the recipe-extractor back end: the persistence handlers of   *)
(* app/api/routes.py over the tables of app/models/models.py, the          *)
(* extraction endpoint with its scraper / YouTube branches, the bounded    *)
(* wait around the language-model call (ollama_chat_with_timeout) and the  *)
(* response parsers of app/utils and main_backup.py.                       *)
(*                                                                         *)
(* Text is modelled character by character: a Python str is a sequence of  *)
(* one-character strings, so that json.dumps / json.loads and the regular  *)
(* expressions of the parsers are computed, not assumed.                   *)
(***************************************************************************)
EXTENDS Integers, Sequences, FiniteSets, TLC

(***************************************************************************)
(* Characters                                                              *)
(***************************************************************************)
QUOTE == "\""
BSLASH == "\\"
NL == "\n"
TAB == "\t"
\* one character outside ASCII (e with acute accent, U+00E9)
EACUTE == "U+00E9"
\* any other character outside ASCII produced by a \uXXXX escape
OTHERUNI == "U+XXXX"

Whitespace == {" ", NL, TAB}
ControlChars == {NL, TAB}
NonAscii == {EACUTE, OTHERUNI}
Digits == {"0", "1", "2", "3", "4", "5", "6", "7", "8", "9"}
HexDigits == Digits \cup {"a", "b", "c", "d", "e", "f", "A", "B", "C", "D", "E", "F"}

Min(S) == CHOOSE x \in S : \A y \in S : x <= y

\* the element of a one-element set: The({ e(x) : x \in {v} }) is e(v) with v
\* computed once
The(S) == CHOOSE x \in S : TRUE

\* a Python str / list value as json sees it
PyStr(cs) == [t |-> "str", v |-> cs]
PyList(vs) == [t |-> "list", v |-> vs]
PyStrList(l) == PyList([i \in DOMAIN l |-> PyStr(l[i])])

(***************************************************************************)
(* json.dumps with the default arguments (ensure_ascii=True, separators    *)
(* ", " and ": "), for the values the handlers pass: str and list.         *)
(***************************************************************************)
EscapeChar(c) ==
    CASE c = QUOTE -> <<BSLASH, QUOTE>>
      [] c = BSLASH -> <<BSLASH, BSLASH>>
      [] c = NL -> <<BSLASH, "n">>
      [] c = TAB -> <<BSLASH, "t">>
      [] c = EACUTE -> <<BSLASH, "u", "0", "0", "e", "9">>
      [] c = OTHERUNI -> <<BSLASH, "u", "0", "1", "0", "0">>
      [] OTHER -> <<c>>

RECURSIVE EscapeStr(_)
EscapeStr(cs) ==
    IF cs = <<>> THEN <<>> ELSE EscapeChar(Head(cs)) \o EscapeStr(Tail(cs))

RECURSIVE JsonDumps(_), DumpElems(_)
JsonDumps(v) ==
    IF v.t = "str"
    THEN <<QUOTE>> \o EscapeStr(v.v) \o <<QUOTE>>
    ELSE <<"[">> \o DumpElems(v.v) \o <<"]">>

DumpElems(l) ==
    IF l = <<>> THEN <<>>
    ELSE JsonDumps(Head(l))
         \o (IF Len(l) > 1 THEN <<",", " ">> ELSE <<>>)
         \o DumpElems(Tail(l))

(***************************************************************************)
(* json.loads (strict): a recursive-descent parser over the characters.    *)
(* A result is [ok, val, next]; val is [t |-> "str" | "list" | "obj" |     *)
(* "num", v |-> ...], an object being a function from its keys.            *)
(***************************************************************************)
ParseFail == [ok |-> FALSE, val |-> PyStr(<<>>), next |-> 0]
ParseOk(v, n) == [ok |-> TRUE, val |-> v, next |-> n]

SkipWs(s, i) ==
    LET rest == {j \in i..Len(s) : s[j] \notin Whitespace}
    IN  IF rest = {} THEN Len(s) + 1 ELSE Min(rest)

UnicodeChar(hex) ==
    IF hex = <<"0", "0", "e", "9">> \/ hex = <<"0", "0", "E", "9">>
    THEN EACUTE ELSE OTHERUNI

RECURSIVE ScanString(_, _, _)
ScanString(s, j, acc) ==
    IF j > Len(s) THEN ParseFail
    ELSE IF s[j] = QUOTE THEN ParseOk(PyStr(acc), j + 1)
    ELSE IF s[j] = BSLASH THEN
        IF j + 1 > Len(s) THEN ParseFail
        ELSE IF s[j + 1] \in {QUOTE, BSLASH, "/"}
             THEN ScanString(s, j + 2, Append(acc, s[j + 1]))
        ELSE IF s[j + 1] = "n" THEN ScanString(s, j + 2, Append(acc, NL))
        ELSE IF s[j + 1] = "t" THEN ScanString(s, j + 2, Append(acc, TAB))
        ELSE IF s[j + 1] = "u"
             THEN IF j + 5 <= Len(s) /\ \A k \in 2..5 : s[j + k] \in HexDigits
                  THEN ScanString(s, j + 6,
                                  Append(acc, UnicodeChar(SubSeq(s, j + 2, j + 5))))
                  ELSE ParseFail
        ELSE ParseFail
    ELSE IF s[j] \in ControlChars THEN ParseFail
    ELSE ScanString(s, j + 1, Append(acc, s[j]))

NumberEnd(s, i) ==
    IF s[i] = "0" THEN i
    ELSE LET stop == {j \in i..Len(s) : s[j] \notin Digits}
         IN  IF stop = {} THEN Len(s) ELSE Min(stop) - 1

RECURSIVE ParseValue(_, _), ParseElems(_, _, _), ParseMembers(_, _, _)
ParseValue(s, i) ==
    IF i > Len(s) THEN ParseFail
    ELSE IF s[i] = QUOTE THEN ScanString(s, i + 1, <<>>)
    ELSE IF s[i] = "[" THEN
        The({ IF j <= Len(s) /\ s[j] = "]" THEN ParseOk(PyList(<<>>), j + 1)
              ELSE ParseElems(s, j, <<>>) : j \in {SkipWs(s, i + 1)} })
    ELSE IF s[i] = "{" THEN
        The({ IF j <= Len(s) /\ s[j] = "}" THEN ParseOk([t |-> "obj", v |-> <<>>], j + 1)
              ELSE ParseMembers(s, j, <<>>) : j \in {SkipWs(s, i + 1)} })
    ELSE IF s[i] \in Digits THEN
        The({ ParseOk([t |-> "num", v |-> SubSeq(s, i, e)], e + 1) : e \in {NumberEnd(s, i)} })
    ELSE ParseFail

\* after element r of a list: "," and the next element, or "]"
AfterElem(s, r, j, acc) ==
    IF j > Len(s) THEN ParseFail
    ELSE IF s[j] = "," THEN ParseElems(s, SkipWs(s, j + 1), Append(acc, r.val))
    ELSE IF s[j] = "]" THEN ParseOk(PyList(Append(acc, r.val)), j + 1)
    ELSE ParseFail

ParseElems(s, i, acc) ==
    The({ IF ~r.ok THEN ParseFail
          ELSE The({ AfterElem(s, r, j, acc) : j \in {SkipWs(s, r.next)} }) :
          r \in {ParseValue(s, i)} })

\* after member key: r of an object: "," and the next member, or "}"
AfterMember(s, k, more) ==
    IF k > Len(s) THEN ParseFail
    ELSE IF s[k] = "," THEN ParseMembers(s, SkipWs(s, k + 1), more)
    ELSE IF s[k] = "}" THEN ParseOk([t |-> "obj", v |-> more], k + 1)
    ELSE ParseFail

MemberValue(s, key, j, acc) ==
    IF j > Len(s) \/ s[j] # ":" THEN ParseFail
    ELSE The({ IF ~r.ok THEN ParseFail
               ELSE The({ AfterMember(s, k, more) :
                          k \in {SkipWs(s, r.next)},
                          more \in {[x \in DOMAIN acc \cup {key.val.v} |->
                                       IF x = key.val.v THEN r.val ELSE acc[x]]} }) :
               r \in {ParseValue(s, SkipWs(s, j + 1))} })

ParseMembers(s, i, acc) ==
    IF i > Len(s) \/ s[i] # QUOTE THEN ParseFail
    ELSE The({ IF ~key.ok THEN ParseFail
               ELSE The({ MemberValue(s, key, j, acc) : j \in {SkipWs(s, key.next)} }) :
               key \in {ScanString(s, i + 1, <<>>)} })

\* json.loads(s): the one value of the text, or JSONDecodeError (ok = FALSE)
JsonLoads(s) ==
    The({ IF r.ok /\ SkipWs(s, r.next) = Len(s) + 1 THEN r ELSE ParseFail :
          r \in {ParseValue(s, SkipWs(s, 1))} })

\* a decoded value that is a list of str, as List[str] of the response models
IsStrList(v) == v.t = "list" /\ \A i \in DOMAIN v.v : v.v[i].t = "str"
StrListOf(v) == [i \in DOMAIN v.v |-> v.v[i].v]

(***************************************************************************)
(* Python str operations on character sequences                            *)
(***************************************************************************)
UpperLetters ==
    <<"A", "B", "C", "D", "E", "F", "G", "H", "I", "J", "K", "L", "M",
      "N", "O", "P", "Q", "R", "S", "T", "U", "V", "W", "X", "Y", "Z">>
LowerLetters ==
    <<"a", "b", "c", "d", "e", "f", "g", "h", "i", "j", "k", "l", "m",
      "n", "o", "p", "q", "r", "s", "t", "u", "v", "w", "x", "y", "z">>
Range(f) == { f[i] : i \in DOMAIN f }
IsUpper(c) == c \in Range(UpperLetters)
IsLower(c) == c \in Range(LowerLetters)
IsLetter(c) == IsUpper(c) \/ IsLower(c)

Max(S) == CHOOSE x \in S : \A y \in S : x >= y

\* str.lower()
LowerChar(c) ==
    IF IsUpper(c)
    THEN LowerLetters[CHOOSE i \in DOMAIN UpperLetters : UpperLetters[i] = c]
    ELSE c
LowerStr(s) == [i \in DOMAIN s |-> LowerChar(s[i])]

\* w occurs in s at position i
MatchAt(s, i, w) ==
    /\ i >= 1
    /\ i + Len(w) - 1 <= Len(s)
    /\ \A k \in DOMAIN w : s[i + k - 1] = w[k]

\* `w in s`
Contains(s, w) == \E i \in 1..(Len(s) + 1) : MatchAt(s, i, w)

\* str.strip()
StripOf(s) ==
    The({ IF keep = {} THEN <<>> ELSE SubSeq(s, Min(keep), Max(keep)) :
          keep \in {{ i \in DOMAIN s : s[i] \notin Whitespace }} })
Strip(x) == The({ StripOf(s) : s \in {x} })

\* the k-th smallest element of a set of numbers
Nth(S, k) == CHOOSE x \in S : Cardinality({ y \in S : y < x }) = k - 1

\* str.split("\n"): the pieces between the line breaks, empty ones included
SplitLines(s) ==
    The({ [k \in 1..(Cardinality(brk) + 1) |->
              SubSeq(s,
                     (IF k = 1 THEN 0 ELSE Nth(brk, k - 1)) + 1,
                     (IF k = Cardinality(brk) + 1 THEN Len(s) + 1 ELSE Nth(brk, k)) - 1)] :
          brk \in {{ i \in DOMAIN s : s[i] = NL }} })

NonEmpty(s) == s # <<>>

\* [x.strip() for x in s.split("\n") if x.strip()]
StrippedLines(s) ==
    The({ SelectSeq([k \in DOMAIN lines |-> Strip(lines[k])], NonEmpty) :
          lines \in {SplitLines(s)} })

(***************************************************************************)
(* The re module as a backtracking matcher. A pattern is a tree; Ends      *)
(* lists the ways the pattern matches at position i in the order in which  *)
(* a backtracking matcher tries them, each with its end position and the   *)
(* groups it captured, so that the first one is the match re reports.      *)
(***************************************************************************)
ReSet(S) == [op |-> "set", set |-> S, neg |-> FALSE]
ReNot(S) == [op |-> "set", set |-> S, neg |-> TRUE]
ReDot == [op |-> "dot"]
ReStr(w) == [op |-> "str", w |-> w]
ReBol == [op |-> "bol"]
ReEol == [op |-> "eol"]
ReCat(a, b) == [op |-> "cat", a |-> a, b |-> b]
ReAlt(a, b) == [op |-> "alt", a |-> a, b |-> b]
ReStar(a) == [op |-> "star", a |-> a, lazy |-> FALSE]
ReLazyStar(a) == [op |-> "star", a |-> a, lazy |-> TRUE]
RePlus(a) == ReCat(a, ReStar(a))
ReLazyPlus(a) == ReCat(a, ReLazyStar(a))
ReGroup(n, a) == [op |-> "grp", n |-> n, a |-> a]

\* a b c ... and a | b | c ...; a repetition is of a one-character pattern, as
\* every repetition in the patterns of this program is
RECURSIVE ReSeq(_)
ReSeq(rs) == IF Len(rs) = 1 THEN rs[1] ELSE ReCat(Head(rs), ReSeq(Tail(rs)))
RECURSIVE ReAny(_)
ReAny(rs) == IF Len(rs) = 1 THEN rs[1] ELSE ReAlt(Head(rs), ReAny(Tail(rs)))
ReWords(ws) == ReAny([k \in DOMAIN ws |-> ReStr(ws[k])])

\* flags
ReFlags(ignorecase, dotall) == [ic |-> ignorecase, dotall |-> dotall]
NoFlags == ReFlags(FALSE, FALSE)
IgnoreCase == ReFlags(TRUE, FALSE)
DotAllIgnoreCase == ReFlags(TRUE, TRUE)

FoldChar(c, f) == IF f.ic THEN LowerChar(c) ELSE c
InSet(c, S, f) == IF f.ic THEN LowerChar(c) \in { LowerChar(x) : x \in S } ELSE c \in S
MatchAtFold(s, i, w, f) ==
    /\ i + Len(w) - 1 <= Len(s)
    /\ \A k \in DOMAIN w : FoldChar(s[i + k - 1], f) = FoldChar(w[k], f)

\* \s, \d, [a-zA-Z], [A-Z]
ReSpace == ReSet(Whitespace)
ReDigit == ReSet(Digits)
ReLetter == ReSet(Range(UpperLetters) \cup Range(LowerLetters))
ReUpper == ReSet(Range(UpperLetters))

NoGroups == [n \in 1..2 |-> <<0, 0>>]
Hit(e, g) == [e |-> e, g |-> g]

\* does the one-character pattern r accept the character c
Accepts(r, f, c) ==
    CASE r.op = "set" -> InSet(c, r.set, f) # r.neg
      [] r.op = "dot" -> f.dotall \/ c # NL

\* how many characters from position i on a one-character pattern accepts
RunLength(r, f, s, i) ==
    The({ IF stops = {} THEN Len(s) + 1 - i ELSE Min(stops) - i :
          stops \in {{ j \in i..Len(s) : ~Accepts(r, f, s[j]) }} })

RECURSIVE Ends(_, _, _, _, _)
RECURSIVE EndsAfter(_, _, _, _, _, _)
Ends(r, f, s, i, g) ==
    CASE r.op \in {"set", "dot"} ->
           IF i <= Len(s) /\ Accepts(r, f, s[i]) THEN <<Hit(i + 1, g)>> ELSE <<>>
      [] r.op = "str" ->
           IF MatchAtFold(s, i, r.w, f) THEN <<Hit(i + Len(r.w), g)>> ELSE <<>>
      [] r.op = "bol" ->
           IF i = 1 THEN <<Hit(i, g)>> ELSE <<>>
      [] r.op = "eol" ->
           \* the end of the string, or just before a line break that ends it
           IF i = Len(s) + 1 \/ (i = Len(s) /\ s[i] = NL) THEN <<Hit(i, g)>> ELSE <<>>
      [] r.op = "cat" ->
           The({ EndsAfter(r.b, f, s, xs, 1, Len(xs)) : xs \in {Ends(r.a, f, s, i, g)} })
      [] r.op = "alt" ->
           Ends(r.a, f, s, i, g) \o Ends(r.b, f, s, i, g)
      [] r.op = "grp" ->
           The({ [k \in DOMAIN xs |->
                     Hit(xs[k].e, [xs[k].g EXCEPT ![r.n] = <<i, xs[k].e>>])] :
                 xs \in {Ends(r.a, f, s, i, g)} })
      [] r.op = "star" ->
           \* the body is one character wide: the run of characters it accepts
           \* from i on, longest first, or shortest first when lazy
           The({ [k \in 1..(n + 1) |-> Hit(IF r.lazy THEN i + k - 1 ELSE i + n + 1 - k, g)] :
                 n \in {RunLength(r.a, f, s, i)} })

\* the ways r matches after each of the matches xs[lo..hi], in their order
EndsAfter(r, f, s, xs, lo, hi) ==
    IF lo > hi THEN <<>>
    ELSE IF lo = hi THEN Ends(r, f, s, xs[lo].e, xs[lo].g)
    ELSE EndsAfter(r, f, s, xs, lo, (lo + hi) \div 2)
         \o EndsAfter(r, f, s, xs, (lo + hi) \div 2 + 1, hi)

\* a match object: where it starts and ends (exclusive) and its groups
NoMatch == [found |-> FALSE, st |-> 0, e |-> 0, g |-> NoGroups]
Match(st, x) == [found |-> TRUE, st |-> st, e |-> x.e, g |-> x.g]

\* re.match: at the start of the string only
re_match(r, f, s) ==
    The({ IF xs = <<>> THEN NoMatch ELSE Match(1, xs[1]) :
          xs \in { The({ Ends(r, f, t, 1, NoGroups) : t \in {s} }) } })

\* re.search from position i: the leftmost match
SearchFrom(r, f, s, i) ==
    The({ IF starts = {} THEN NoMatch
          ELSE Match(Min(starts), Ends(r, f, s, Min(starts), NoGroups)[1]) :
          starts \in {{ j \in i..(Len(s) + 1) : Ends(r, f, s, j, NoGroups) # <<>> }} })

re_search(r, f, s) == The({ SearchFrom(r, f, t, 1) : t \in {s} })

\* match.group(n), match.group(0)
Group(s, m, n) == SubSeq(s, m.g[n][1], m.g[n][2] - 1)
Whole(s, m) == SubSeq(s, m.st, m.e - 1)

\* the non-overlapping matches from left to right, as findall and sub scan them
RECURSIVE MatchesFrom(_, _, _, _)
MatchesFrom(r, f, s, i) ==
    The({ IF ~m.found THEN <<>>
          ELSE <<m>> \o MatchesFrom(r, f, s, IF m.e > m.st THEN m.e ELSE m.e + 1) :
          m \in {SearchFrom(r, f, s, i)} })

\* re.findall of a pattern without a group, and of a pattern with one group
AllMatches(r, f, s) == The({ [s |-> t, ms |-> MatchesFrom(r, f, t, 1)] : t \in {s} })
re_findall(r, f, s) ==
    The({ [k \in DOMAIN a.ms |-> Whole(a.s, a.ms[k])] : a \in {AllMatches(r, f, s)} })
re_findall_group(r, f, s) ==
    The({ [k \in DOMAIN a.ms |-> Group(a.s, a.ms[k], 1)] : a \in {AllMatches(r, f, s)} })

\* a replacement template: group references, each followed by literal text
Ref(n, lit) == [ref |-> n, lit |-> lit]
RECURSIVE Expand(_, _, _)
Expand(tpl, s, m) ==
    IF tpl = <<>> THEN <<>>
    ELSE (IF Head(tpl).ref = 0 THEN <<>> ELSE Group(s, m, Head(tpl).ref))
         \o Head(tpl).lit \o Expand(Tail(tpl), s, m)

RECURSIVE SubFrom(_, _, _, _, _)
SubFrom(s, ms, k, pos, tpl) ==
    IF k > Len(ms) THEN SubSeq(s, pos, Len(s))
    ELSE SubSeq(s, pos, ms[k].st - 1) \o Expand(tpl, s, ms[k])
         \o SubFrom(s, ms, k + 1, ms[k].e, tpl)

\* re.sub(pattern, template, s)
re_sub(r, f, tpl, s) ==
    The({ SubFrom(a.s, a.ms, 1, 1, tpl) : a \in {AllMatches(r, f, s)} })

(***************************************************************************)
(* State                                                                   *)
(***************************************************************************)
VARIABLES
    \* the tables of app/models/models.py
    users,          \* users: the set of emails (primary key) that signed up
    recipes,        \* recipes: the set of rows
    nextRecipeId,   \* the serial of recipes.id
    mealPlans,      \* meal_plans: the set of rows
    nextPlanId,     \* the serial of meal_plans.id
    \* the last HTTP response of a persistence handler
    resp,
    \* history: who created each row, what each save request held, and the
    \* meal plan ids the last step removed together with a recipe
    recipeCreator,
    planCreator,
    saved,
    lastCascade,
    \* the extraction endpoint: ALLOWED_GPT_EMAILS of the environment, the last
    \* /extract-recipe request with what its collaborators did, and its response
    allowedEmails,
    ereq,
    eresp,
    \* the LLM pipelines (app/utils/ollama_utils.py and the stand-alone
    \* main_backup.py): which of the two runs, what the page fetch and the model
    \* do for the current call, where the caller and the worker thread are, the
    \* dict the two share, which dict ollama_chat_with_timeout returned, whether
    \* join ended by its timeout, the outcome handed to the client, and the
    \* outcomes of the calls so far by cause
    pipeline,
    llmIn,
    cpc,
    wpc,
    result,
    ret,
    joinExpired,
    outcome,
    seen,
    \* the text functions of main_backup.py called on their own: the last call,
    \* with its argument and the value it returned
    call

storeVars == <<users, recipes, nextRecipeId, mealPlans, nextPlanId, resp,
               recipeCreator, planCreator, saved, lastCascade>>

extractVars == <<allowedEmails, ereq, eresp>>

llmVars == <<pipeline, llmIn, cpc, wpc, result, ret, joinExpired, outcome, seen>>

textVars == <<call>>

vars == <<storeVars, extractVars, llmVars, textVars>>

(***************************************************************************)
(* Bounds and inputs of the persistence model                              *)
(***************************************************************************)
MaxRecipes == 1
MaxPlans == 1

Emails == {"ann@x", "bob@x"}
Dates == {1, 2}
MealTypes == {"dinner"}

\* Optional[T]: the empty set is None
None == {}
Some(x) == {x}

ExtractedRecipe(title, ingredients, instructions, url, image) ==
    [title |-> title, ingredients |-> ingredients, instructions |-> instructions,
     original_url |-> url, image_url |-> image]

\* request bodies of /save-recipe used with the meal plan handlers
StorePayloads ==
    { ExtractedRecipe(<<"P">>, << <<"1", " ", "e", "g", "g">> >>, << <<"M", "i", "x">> >>,
                      Some("http://a"), None),
      ExtractedRecipe(<<"S">>, <<>>, <<>>, None, None) }

(***************************************************************************)
(* Columns. A JSONB column serializes the bound Python value with          *)
(* json.dumps and deserializes the result with json.loads.                 *)
(***************************************************************************)
JsonbBind(v) == JsonDumps(v)
JsonbResult(text) == JsonLoads(text)

\* models.py: meal_plans.recipe_id is ForeignKey('recipes.id', ondelete="CASCADE"):
\* the rows that remain when recipe `id` is deleted
OnDeleteSetNull(plans, id) ==
    { IF p.recipe_id = Some(id) THEN [p EXCEPT !.recipe_id = None] ELSE p : p \in plans }

OnDeleteRecipe(plans, id) == { p \in plans : p.recipe_id # Some(id) }

\* the foreign key of meal_plans.recipe_id at insert
ForeignKeyOk(recipe_id) == \A id \in recipe_id : \E r \in recipes : r.id = id

(***************************************************************************)
(* Handlers of app/api/routes.py                                           *)
(***************************************************************************)
Response(op, caller, args, status, body) ==
    [op |-> op, caller |-> caller, args |-> args, status |-> status, body |-> body]

\* get_current_user: the token's subject must be a stored user
Authenticated(u) == u \in users

Unauthorized(op, u, args) ==
    /\ resp' = Response(op, u, args, 401, {})
    /\ lastCascade' = {}
    /\ UNCHANGED <<users, recipes, nextRecipeId, mealPlans, nextPlanId,
                   recipeCreator, planCreator, saved>>

signup(email) ==
    /\ IF email \in users
       THEN /\ resp' = Response("signup", email, <<>>, 500, {})
            /\ UNCHANGED users
       ELSE /\ users' = users \cup {email}
            /\ resp' = Response("signup", email, <<>>, 200, {email})
    /\ lastCascade' = {}
    /\ UNCHANGED <<recipes, nextRecipeId, mealPlans, nextPlanId,
                   recipeCreator, planCreator, saved>>

\* the owner written to a new recipes row
ClientChosenOwner(u, recipe) == CHOOSE e \in Emails : e # u

RecipeOwner(u, recipe) == u

\* a row whose two JSON columns are written from the wrong field
SwappedColumnsRow(id, u, recipe) ==
    [id |-> id,
     title |-> recipe.title,
     ingredients |-> JsonbBind(PyStr(JsonDumps(PyStrList(recipe.instructions)))),
     instructions |-> JsonbBind(PyStr(JsonDumps(PyStrList(recipe.ingredients)))),
     owner_email |-> u,
     original_url |-> recipe.original_url,
     image_url |-> recipe.image_url]

NewRecipeRow(id, u, recipe) ==
    [id |-> id,
     title |-> recipe.title,
     ingredients |-> JsonbBind(PyStr(JsonDumps(PyStrList(recipe.ingredients)))),
     instructions |-> JsonbBind(PyStr(JsonDumps(PyStrList(recipe.instructions)))),
     owner_email |-> RecipeOwner(u, recipe),
     original_url |-> recipe.original_url,
     image_url |-> recipe.image_url]

save_recipe(u, recipe) ==
    /\ nextRecipeId <= MaxRecipes
    /\ IF ~Authenticated(u) THEN Unauthorized("save_recipe", u, <<>>)
       ELSE LET row == NewRecipeRow(nextRecipeId, u, recipe)
            IN  /\ recipes' = recipes \cup {row}
                /\ nextRecipeId' = nextRecipeId + 1
                /\ recipeCreator' = recipeCreator \cup {<<row.id, u>>}
                /\ saved' = saved \cup {[id |-> row.id, caller |-> u, recipe |-> recipe]}
                /\ resp' = Response("save_recipe", u, <<>>, 200,
                                    {[id |-> row.id, title |-> row.title,
                                      ingredients |-> recipe.ingredients,
                                      instructions |-> recipe.instructions,
                                      original_url |-> recipe.original_url,
                                      image_url |-> recipe.image_url]})
                /\ lastCascade' = {}
                /\ UNCHANGED <<users, mealPlans, nextPlanId, planCreator>>

\* one row as the Recipe response model; ok is FALSE when json.loads raises or
\* the decoded value is no List[str]
DecodeColumn(text) ==
    The({ IF c.ok /\ c.val.t = "str" THEN JsonLoads(c.val.v) ELSE ParseFail :
          c \in {JsonbResult(text)} })

RecipeViewOf(row, ing, ins) ==
    IF ing.ok /\ ins.ok /\ IsStrList(ing.val) /\ IsStrList(ins.val)
    THEN [ok |-> TRUE,
          view |-> [id |-> row.id, title |-> row.title,
                    ingredients |-> StrListOf(ing.val),
                    instructions |-> StrListOf(ins.val),
                    original_url |-> row.original_url,
                    image_url |-> row.image_url]]
    ELSE [ok |-> FALSE,
          view |-> [id |-> row.id, title |-> row.title,
                    ingredients |-> <<>>, instructions |-> <<>>,
                    original_url |-> row.original_url,
                    image_url |-> row.image_url]]

RecipeView(row) ==
    The({ RecipeViewOf(row, ing, ins) :
          ing \in {DecodeColumn(row.ingredients)},
          ins \in {DecodeColumn(row.instructions)} })

\* the rows get_user_recipes selects
OwnRecipes(u) == { r \in recipes : r.owner_email = u }

get_user_recipes(u) ==
    /\ IF ~Authenticated(u) THEN Unauthorized("get_user_recipes", u, <<>>)
       ELSE \E views \in {{ RecipeView(r) : r \in OwnRecipes(u) }} :
                /\ resp' = IF \A v \in views : v.ok
                           THEN Response("get_user_recipes", u, <<>>, 200,
                                         { v.view : v \in views })
                           ELSE Response("get_user_recipes", u, <<>>, 500, {})
                /\ lastCascade' = {}
                /\ UNCHANGED <<users, recipes, nextRecipeId, mealPlans, nextPlanId,
                               recipeCreator, planCreator, saved>>

AnyRecipeWithId(u, recipe_id) == { r \in recipes : r.id = recipe_id }

\* lines 138-141: the recipe with that id that belongs to the current user
RecipeOfUser(u, recipe_id) ==
    { r \in recipes : r.id = recipe_id /\ r.owner_email = u }

delete_recipe(u, recipe_id) ==
    /\ IF ~Authenticated(u) THEN Unauthorized("delete_recipe", u, <<recipe_id>>)
       ELSE LET found == RecipeOfUser(u, recipe_id)
            IN  IF found = {}
                THEN /\ resp' = Response("delete_recipe", u, <<recipe_id>>, 404, {})
                     /\ lastCascade' = {}
                     /\ UNCHANGED <<users, recipes, nextRecipeId, mealPlans, nextPlanId,
                                    recipeCreator, planCreator, saved>>
                ELSE /\ recipes' = recipes \ found
                     /\ mealPlans' = OnDeleteRecipe(mealPlans, recipe_id)
                     /\ lastCascade' = { p.id : p \in { q \in mealPlans :
                                                         q.recipe_id = Some(recipe_id) } }
                     /\ saved' = { s \in saved : s.id # recipe_id }
                     /\ resp' = Response("delete_recipe", u, <<recipe_id>>, 200, {})
                     /\ UNCHANGED <<users, nextRecipeId, nextPlanId,
                                    recipeCreator, planCreator>>

create_meal_plan(u, date, meal_type, recipe_id) ==
    /\ nextPlanId <= MaxPlans
    /\ IF ~Authenticated(u)
       THEN Unauthorized("create_meal_plan", u, <<date, date>>)
       ELSE IF ~ForeignKeyOk(recipe_id)
       THEN /\ resp' = Response("create_meal_plan", u, <<date, date>>, 500, {})
            /\ lastCascade' = {}
            /\ UNCHANGED <<users, recipes, nextRecipeId, mealPlans, nextPlanId,
                           recipeCreator, planCreator, saved>>
       ELSE LET row == [id |-> nextPlanId, user_email |-> u, date |-> date,
                        meal_type |-> meal_type, recipe_id |-> recipe_id]
            IN  /\ mealPlans' = mealPlans \cup {row}
                /\ nextPlanId' = nextPlanId + 1
                /\ planCreator' = planCreator \cup {<<row.id, u>>}
                /\ resp' = Response("create_meal_plan", u, <<date, date>>, 200,
                                    {[id |-> row.id, date |-> date,
                                      meal_type |-> meal_type,
                                      recipe_id |-> recipe_id,
                                      recipe_title |-> None]})
                /\ lastCascade' = {}
                /\ UNCHANGED <<users, recipes, nextRecipeId, recipeCreator, saved>>

\* the rows get_meal_plans selects
AnyonesPlansInRange(u, start_date, end_date) ==
    { p \in mealPlans : p.date >= start_date /\ p.date <= end_date }

PlansInRange(u, start_date, end_date) ==
    { p \in mealPlans : /\ p.user_email = u
                        /\ p.date >= start_date
                        /\ p.date <= end_date }

\* meal_plan.recipe.title if meal_plan.recipe else None
RecipeTitleOf(p) == { r.title : r \in { x \in recipes : Some(x.id) = p.recipe_id } }

get_meal_plans(u, start_date, end_date) ==
    /\ IF ~Authenticated(u)
       THEN Unauthorized("get_meal_plans", u, <<start_date, end_date>>)
       ELSE /\ resp' = Response("get_meal_plans", u, <<start_date, end_date>>, 200,
                                { [id |-> p.id, date |-> p.date,
                                   meal_type |-> p.meal_type,
                                   recipe_id |-> p.recipe_id,
                                   recipe_title |-> RecipeTitleOf(p)] :
                                  p \in PlansInRange(u, start_date, end_date) })
            /\ lastCascade' = {}
            /\ UNCHANGED <<users, recipes, nextRecipeId, mealPlans, nextPlanId,
                           recipeCreator, planCreator, saved>>

delete_meal_plan(u, meal_plan_id) ==
    /\ IF ~Authenticated(u)
       THEN Unauthorized("delete_meal_plan", u, <<meal_plan_id>>)
       ELSE LET found == { p \in mealPlans : p.id = meal_plan_id /\ p.user_email = u }
            IN  /\ mealPlans' = mealPlans \ found
                /\ resp' = Response("delete_meal_plan", u, <<meal_plan_id>>,
                                    IF found = {} THEN 404 ELSE 200, {})
                /\ lastCascade' = {}
                /\ UNCHANGED <<users, recipes, nextRecipeId, nextPlanId,
                               recipeCreator, planCreator, saved>>

(***************************************************************************)
(* The extraction endpoint, routes.extract_recipe, with the YouTube branch *)
(* of app/utils/youtube_utils.py. What the collaborators (the scraper      *)
(* library, pytubefix, the OpenAI client) do is an input of the request.   *)
(***************************************************************************)
KeyTitle == <<"t", "i", "t", "l", "e">>
KeyIngredients == <<"i", "n", "g", "r", "e", "d", "i", "e", "n", "t", "s">>
KeyInstructions == <<"i", "n", "s", "t", "r", "u", "c", "t", "i", "o", "n", "s">>

\* dict.get(key, default) on a decoded JSON object
Get(obj, key, default) == IF key \in DOMAIN obj.v THEN obj.v[key] ELSE default

\* pydantic: a str field takes a str (a number is coerced), a List[str] field
\* takes a list of those
ValidStr(v) == v.t \in {"str", "num"}
ValidStrList(v) == v.t = "list" /\ \A i \in DOMAIN v.v : ValidStr(v.v[i])

\* error texts
NotSupported == <<"n", "o", "t", " ", "s", "u", "p", "p", "o", "r", "t", "e", "d">>
DetailUnsupported == <<"T", "h", "i", "s", " ", "w", "e", "b", "s", "i", "t", "e", " ", "i", "s",
          " ", "n", "o", "t", " ", "s", "u", "p", "p", "o", "r", "t", "e", "d", " ",
          "r", "i", "g", "h", "t", " ", "n", "o", "w", ".", " ", "P", "l", "e", "a",
          "s", "e", " ", "t", "r", "y", " ", "a", "n", "o", "t", "h", "e", "r", " ",
          "o", "n", "e", ".">>
DetailErrorPrefix == <<"E", "r", "r", "o", "r", " ", "e", "x", "t", "r", "a", "c", "t", "i", "n",
          "g", " ", "r", "e", "c", "i", "p", "e", ":", " ">>
DetailNotAllowed == <<"Y", "o", "u", " ", "a", "r", "e", " ", "n", "o", "t", " ", "a", "l", "l",
          "o", "w", "e", "d", " ", "t", "o", " ", "u", "s", "e", " ", "t", "h", "i",
          "s", " ", "f", "e", "a", "t", "u", "r", "e", ".">>
DetailCredentials == <<"C", "o", "u", "l", "d", " ", "n", "o", "t", " ", "v", "a", "l", "i", "d",
          "a", "t", "e", " ", "c", "r", "e", "d", "e", "n", "t", "i", "a", "l", "s">>
YoutubeErrorPrefix == <<"F", "a", "i", "l", "e", "d", " ", "t", "o", " ", "e", "x", "t", "r", "a",
          "c", "t", " ", "Y", "o", "u", "T", "u", "b", "e", " ", "v", "i", "d", "e",
          "o", " ", "d", "e", "t", "a", "i", "l", "s", ":", " ">>
MsgJsonDecode == <<"E", "x", "p", "e", "c", "t", "i", "n", "g", " ", "v", "a", "l", "u", "e",
          ":", " ", "l", "i", "n", "e", " ", "1", " ", "c", "o", "l", "u", "m", "n",
          " ", "1", " ", "(", "c", "h", "a", "r", " ", "0", ")">>
MsgNoGet == <<"o", "b", "j", "e", "c", "t", " ", "h", "a", "s", " ", "n", "o", " ", "a",
          "t", "t", "r", "i", "b", "u", "t", "e", " ", "'", "g", "e", "t", "'">>
MsgValidation == <<"v", "a", "l", "i", "d", "a", "t", "i", "o", "n", " ", "e", "r", "r", "o",
          "r", " ", "f", "o", "r", " ", "E", "x", "t", "r", "a", "c", "t", "e", "d",
          "R", "e", "c", "i", "p", "e">>
\* str(HTTPException(403, detail))
StrHttp403 == <<"4", "0", "3", ":", " ">> \o DetailNotAllowed

HttpError(status, detail) == [status |-> status, detail |-> detail, recipe |-> None]
HttpOk(recipe) == [status |-> 200, detail |-> <<>>, recipe |-> Some(recipe)]
Raised(msg) == [ok |-> FALSE, msg |-> msg, recipe |-> ExtractedRecipe(<<>>, <<>>, <<>>, None, None)]
Returned(recipe) == [ok |-> TRUE, msg |-> <<>>, recipe |-> recipe]

\* extract_youtube_video_details: lines 50-60, the model's text to a recipe
RecipeFromJson(j, url, video) ==
    IF ~j.ok THEN Raised(MsgJsonDecode)
    ELSE IF j.val.t # "obj" THEN Raised(MsgNoGet)
    ELSE The({ IF ValidStr(title) /\ ValidStrList(ingredients) /\ ValidStrList(instructions)
               THEN Returned(ExtractedRecipe(title.v, StrListOf(ingredients),
                                             StrListOf(instructions),
                                             Some(url), Some(video.thumbnail)))
               ELSE Raised(MsgValidation) :
               title \in {Get(j.val, KeyTitle, PyStr(video.title))},
               ingredients \in {Get(j.val, KeyIngredients, PyList(<<>>))},
               instructions \in {Get(j.val, KeyInstructions, PyList(<<>>))} })

extract_youtube_video_details(url, video) ==
    The({ IF r.ok THEN r ELSE Raised(YoutubeErrorPrefix \o r.msg) :
          r \in { IF video.kind = "llm_text"
                  THEN RecipeFromJson(JsonLoads(video.text), url, video)
                  ELSE Raised(video.msg) } })

\* lines 63-69: the scraper branch
ScrapeSite(url, scraper) ==
    IF scraper.kind = "ok"
    THEN Returned(ExtractedRecipe(scraper.title, scraper.ingredients,
                                  StrippedLines(scraper.raw_instructions),
                                  Some(url), Some(scraper.image)))
    ELSE Raised(scraper.msg)

\* lines 70-76: every exception of the try block becomes a 400
ClassifyError(msg) ==
    IF Contains(LowerStr(msg), NotSupported)
    THEN HttpError(400, DetailUnsupported)
    ELSE HttpError(400, DetailErrorPrefix \o msg)

IsYoutubeUrl(url) == Contains(url, <<"y", "o", "u", "t", "u", "b", "e", ".", "c", "o", "m">>) \/ Contains(url, <<"y", "o", "u", "t", "u", ".", "b", "e">>)

ExtractOutcome(u, url, scraper, video) ==
    IF IsYoutubeUrl(url)
    THEN IF u \notin allowedEmails
         THEN Raised(StrHttp403)
         ELSE extract_youtube_video_details(url, video)
    ELSE ScrapeSite(url, scraper)

ExtractResponse(u, url, scraper, video) ==
    IF ~Authenticated(u) THEN HttpError(401, DetailCredentials)
    ELSE The({ IF r.ok THEN HttpOk(r.recipe) ELSE ClassifyError(r.msg) :
               r \in {ExtractOutcome(u, url, scraper, video)} })

extract_recipe(u, url, scraper, video) ==
    /\ ereq' = [caller |-> u, url |-> url, scraper |-> scraper, video |-> video]
    /\ eresp' = ExtractResponse(u, url, scraper, video)
    /\ UNCHANGED allowedEmails

(***************************************************************************)
(* Inputs of the extraction endpoint                                       *)
(***************************************************************************)
NoScraper ==
    [kind |-> "none", msg |-> <<>>, title |-> <<>>, ingredients |-> <<>>,
     raw_instructions |-> <<>>, image |-> ""]
NoVideo == [kind |-> "none", msg |-> <<>>, title |-> <<>>, thumbnail |-> "", text |-> <<>>]

\* what the site-scraper library answers: no strategy for the domain
\* (WebsiteNotImplementedError, in two wordings of the library), a strategy
\* that fails while scraping, or a scraped recipe
UnsupportedMessages ==
    { <<"W", "e", "b", "s", "i", "t", "e", " ", "(", "x", ".", "o", "r", "g", ")",
          " ", "n", "o", "t", " ", "s", "u", "p", "p", "o", "r", "t", "e", "d", ".">>,
      <<"T", "h", "e", " ", "w", "e", "b", "s", "i", "t", "e", " ", "'", "x", ".",
          "o", "r", "g", "'", " ", "i", "s", "n", "'", "t", " ", "c", "u", "r", "r",
          "e", "n", "t", "l", "y", " ", "s", "u", "p", "p", "o", "r", "t", "e", "d">> }
FailureMessages ==
    { <<"N", "o", " ", "R", "e", "c", "i", "p", "e", " ", "S", "c", "h", "e", "m",
          "a", " ", "f", "o", "u", "n", "d">>,
      <<"5", "0", "5", " ", "S", "e", "r", "v", "e", "r", " ", "E", "r", "r", "o",
          "r", ":", " ", "H", "T", "T", "P", " ", "V", "e", "r", "s", "i", "o", "n",
          " ", "N", "o", "t", " ", "S", "u", "p", "p", "o", "r", "t", "e", "d">> }
ScraperBehaviours ==
    { [NoScraper EXCEPT !.kind = "unsupported", !.msg = m] : m \in UnsupportedMessages }
    \cup { [NoScraper EXCEPT !.kind = "failed", !.msg = m] : m \in FailureMessages }
    \cup { [NoScraper EXCEPT !.kind = "ok", !.title = <<"P">>,
                            !.ingredients = << <<"1", " ", "e", "g", "g">> >>,
                            !.raw_instructions = raw, !.image = "img"] :
           raw \in { <<>>, <<" ", "M", "i", "x", " ", NL, NL, "C", "o", "o", "k", NL>> } }

\* a JSON object text with the given members, as a model writes it
RECURSIVE MembersText(_)
MembersText(ms) ==
    IF ms = <<>> THEN <<>>
    ELSE JsonDumps(PyStr(Head(ms).k)) \o <<":", " ">> \o JsonDumps(Head(ms).v)
         \o (IF Len(ms) > 1 THEN <<",", " ">> ELSE <<>>)
         \o MembersText(Tail(ms))
ObjectText(ms) == <<"{">> \o MembersText(ms) \o <<"}">>

Pick(seq, K) == [i \in 1..Cardinality(K) |-> seq[Nth(K, i)]]

SchemaMembers ==
    << [k |-> KeyTitle, v |-> PyStr(<<"S", "o", "u", "p">>)],
       [k |-> KeyIngredients, v |-> PyStrList(<< <<"2", "e", "g", "g", "s">> >>)],
       [k |-> KeyInstructions, v |-> PyStrList(<< <<"M", "i", "x">>, <<"E", "a", "t">> >>)] >>

\* the objects with every subset of the three required keys
SchemaTexts == { ObjectText(Pick(SchemaMembers, K)) : K \in SUBSET (1..3) }

\* texts that are no JSON object of the schema
OtherTexts ==
    { <<>>,
      <<"[", "]">>,
      <<"S", "o", "r", "r", "y", ",", " ", "n", "o", " ", "r", "e", "c", "i", "p",
          "e", ".">>,
      ObjectText(<< [k |-> KeyTitle, v |-> PyList(<<>>)] >>),
      ObjectText(<< [k |-> KeyIngredients, v |-> PyStr(<<"x">>)] >>) }

ModelErrorMessages == { <<"C", "o", "n", "n", "e", "c", "t", "i", "o", "n", " ", "r", "e", "f", "u",
          "s", "e", "d">>, <<"m", "o", "d", "e", "l", " ", "n", "o", "t", " ", "s", "u", "p", "p", "o",
          "r", "t", "e", "d">> }

VideoBehaviours ==
    { [NoVideo EXCEPT !.kind = "unavailable", !.msg = <<"v", "i", "d", "e", "o", " ", "u", "n", "a", "v", "a", "i", "l", "a", "b",
          "l", "e">>] }
    \cup { [NoVideo EXCEPT !.kind = "llm_error", !.msg = m, !.title = <<"V">>,
                          !.thumbnail = "thumb"] : m \in ModelErrorMessages }
    \cup { [NoVideo EXCEPT !.kind = "llm_text", !.text = t, !.title = <<"V">>,
                          !.thumbnail = "thumb"] : t \in SchemaTexts \cup OtherTexts }

SiteUrls == { <<"h", "t", "t", "p", ":", "/", "/", "x", ".", "o", "r", "g", "/", "r">> }
YoutubeUrls == { <<"h", "t", "t", "p", ":", "/", "/", "y", "o", "u", "t", "u", ".", "b", "e",
          "/", "v">>, <<"h", "t", "t", "p", ":", "/", "/", "y", "o", "u", "t", "u", "b", "e", ".",
          "c", "o", "m", "/", "w">> }

(***************************************************************************)
(* main_backup.py: cleaning and parsing of the model's answer              *)
(***************************************************************************)
\* the characters of the class [▢□■►•◆]
SpecialChars == {"U+25A2", "U+25A1", "U+25A0", "U+25BA", "U+2022", "U+25C6"}

Sub(pattern, tpl) == [re |-> pattern, tpl |-> tpl]
UnitSub(unit) == Sub(ReCat(ReGroup(1, RePlus(ReDigit)), ReStr(unit)), <<Ref(1, <<" ">> \o unit)>>)

\* the steps without the one of line 50
CleanStepsWithoutDigitRule ==
    << Sub(ReSet(SpecialChars), <<>>),
       Sub(ReCat(ReGroup(1, ReLetter), ReGroup(2, ReUpper)),
           <<Ref(1, <<" ">>), Ref(2, <<>>)>>),
       UnitSub(<<"t", "b", "s", "p">>), UnitSub(<<"t", "s", "p">>), UnitSub(<<"c", "u", "p">>), UnitSub(<<"g">>),
       UnitSub(<<"o", "z">>), UnitSub(<<"m", "l">>), UnitSub(<<"l", "b">>) >>

\* lines 48-60, in order
CleanSteps ==
    << Sub(ReSet(SpecialChars), <<>>),
       Sub(ReCat(ReGroup(1, RePlus(ReDigit)), ReGroup(2, ReLetter)),
           <<Ref(1, <<" ">>), Ref(2, <<>>)>>),
       Sub(ReCat(ReGroup(1, ReLetter), ReGroup(2, ReUpper)),
           <<Ref(1, <<" ">>), Ref(2, <<>>)>>),
       UnitSub(<<"t", "b", "s", "p">>), UnitSub(<<"t", "s", "p">>), UnitSub(<<"c", "u", "p">>), UnitSub(<<"g">>),
       UnitSub(<<"o", "z">>), UnitSub(<<"m", "l">>), UnitSub(<<"l", "b">>) >>

RECURSIVE ApplySubs(_, _)
ApplySubs(steps, x) ==
    IF steps = <<>> THEN x
    ELSE The({ ApplySubs(Tail(steps), y) :
               y \in {re_sub(Head(steps).re, NoFlags, Head(steps).tpl, x)} })

\* line 62
CollapseSpaces(x) ==
    The({ Strip(y) : y \in {re_sub(RePlus(ReSpace), NoFlags, <<Ref(0, <<" ">>)>>, x)} })

clean_ingredient(x) == The({ CollapseSpaces(y) : y \in {ApplySubs(CleanSteps, x)} })
clean_ingredients(ingredients) ==
    [k \in DOMAIN ingredients |-> clean_ingredient(ingredients[k])]

\* line 74
Nutritional ==
    ReCat(ReBol, ReGroup(1, ReWords(<< <<"k", "c", "a", "l">>, <<"f", "a", "t">>, <<"s", "a", "t", "u", "r", "a", "t", "e", "s">>, <<"c", "a", "r", "b", "s">>, <<"s", "u", "g", "a", "r", "s">>,
                                       <<"f", "i", "b", "r", "e">>, <<"p", "r", "o", "t", "e", "i", "n">>, <<"s", "a", "l", "t">> >>)))

DuplicatesIngredient(instr, ingredients) ==
    \E k \in DOMAIN ingredients :
        LowerStr(Strip(instr)) = LowerStr(Strip(ingredients[k]))

KeepInstruction(instr, ingredients) ==
    /\ ~DuplicatesIngredient(instr, ingredients)
    /\ ~re_match(Nutritional, IgnoreCase, instr).found

filter_instructions(instructions, ingredients) ==
    SelectSeq(instructions, LAMBDA instr : KeepInstruction(instr, ingredients))

\* what a for loop over a decoded value visits: the elements of a list, the
\* characters of a str; a number is not iterable (a dict is not among the
\* values the inputs give these fields)
Iterate(v) ==
    CASE v.t = "list" -> [ok |-> TRUE, items |-> v.v]
      [] v.t = "str" -> [ok |-> TRUE, items |-> [i \in DOMAIN v.v |-> PyStr(<<v.v[i]>>)]]
      [] OTHER -> [ok |-> FALSE, items |-> <<>>]

\* the str items of a value, when it can be iterated and gives only str
StrItems(v) ==
    The({ IF it.ok /\ \A k \in DOMAIN it.items : it.items[k].t = "str"
          THEN [ok |-> TRUE, items |-> [k \in DOMAIN it.items |-> it.items[k].v]]
          ELSE [ok |-> FALSE, items |-> <<>>] :
          it \in {Iterate(v)} })

RecipeData(title, ingredients, instructions) ==
    [title |-> title, ingredients |-> ingredients, instructions |-> instructions]

\* the first of the patterns that re.search finds in the text
RECURSIVE FirstMatch(_, _, _)
FirstMatch(patterns, f, text) ==
    IF patterns = <<>> THEN NoMatch
    ELSE The({ IF m.found THEN m ELSE FirstMatch(Tail(patterns), f, text) :
               m \in {re_search(Head(patterns), f, text)} })

RestOfLine == ReGroup(1, RePlus(ReNot({NL})))
Stars == ReStr(<<"*", "*">>)
Hashes == ReStr(<<"#", "#">>)
Body == ReGroup(1, ReLazyPlus(ReDot))

\* lines 189-194
TitleHeads == ReWords(<< <<"R", "e", "c", "i", "p", "e", " ", "N", "a", "m", "e", ":">>, <<"T", "i", "t", "l", "e", ":">>, <<"R", "e", "c", "i", "p", "e", ":">> >>)
TitlePatterns ==
    << ReSeq(<<TitleHeads, ReStar(ReSpace), RestOfLine>>),
       ReSeq(<<Stars, TitleHeads, Stars, ReStar(ReSpace), RestOfLine>>),
       ReSeq(<<ReStr(<<"#">>), ReStar(ReSpace), RestOfLine>>),
       ReCat(ReGroup(1, ReLazyStar(ReDot)), ReAlt(ReStr(<<NL>>), ReEol)) >>

\* lines 203-207
IngredientHeads == ReWords(<< <<"I", "n", "g", "r", "e", "d", "i", "e", "n", "t", "s", ":">>, <<"I", "N", "G", "R", "E", "D", "I", "E", "N", "T", "S", ":">> >>)
IngredientStops == ReWords(<< <<"I", "n", "s", "t", "r", "u", "c", "t", "i", "o", "n", "s", ":">>, <<"I", "N", "S", "T", "R", "U", "C", "T", "I", "O", "N", "S", ":">>, <<"D", "i", "r", "e", "c", "t", "i", "o", "n", "s", ":">>, <<"N", "O", "T", "E", "S", ":">> >>)
IngredientsPatterns ==
    << ReSeq(<<IngredientHeads, Body, ReAlt(IngredientStops, ReEol)>>),
       ReSeq(<<Stars, IngredientHeads, Stars, Body,
               ReAlt(ReCat(Stars, IngredientStops), ReEol)>>),
       ReSeq(<<Hashes, ReStar(ReSpace), ReStr(<<"I", "n", "g", "r", "e", "d", "i", "e", "n", "t", "s">>), Body, ReAlt(Hashes, ReEol)>>) >>

\* lines 222-226
InstructionHeads ==
    ReWords(<< <<"I", "n", "s", "t", "r", "u", "c", "t", "i", "o", "n", "s", ":">>, <<"I", "N", "S", "T", "R", "U", "C", "T", "I", "O", "N", "S", ":">>, <<"D", "i", "r", "e", "c", "t", "i", "o", "n", "s", ":">>, <<"D", "I", "R", "E", "C", "T", "I", "O", "N", "S", ":">>, <<"M", "e", "t", "h", "o", "d", ":">>,
               <<"P", "R", "E", "P", "A", "R", "A", "T", "I", "O", "N", ":">> >>)
InstructionStops == ReWords(<< <<"N", "o", "t", "e", "s", ":">>, <<"N", "O", "T", "E", "S", ":">>, <<"T", "o", " ", "S", "e", "r", "v", "e", ":">> >>)
InstructionsPatterns ==
    << ReSeq(<<InstructionHeads, Body, ReAlt(InstructionStops, ReEol)>>),
       ReSeq(<<Stars, InstructionHeads, Stars, Body,
               ReAlt(ReCat(Stars, InstructionStops), ReEol)>>),
       ReSeq(<<Hashes, ReStar(ReSpace),
               ReWords(<< <<"I", "n", "s", "t", "r", "u", "c", "t", "i", "o", "n", "s">>, <<"D", "i", "r", "e", "c", "t", "i", "o", "n", "s">>, <<"M", "e", "t", "h", "o", "d">>, <<"P", "r", "e", "p", "a", "r", "a", "t", "i", "o", "n">> >>),
               Body, ReAlt(Hashes, ReEol)>>) >>

\* a line with the bullet "-" only
ListItemDashOnly ==
    ReSeq(<< ReAlt(ReBol, ReStr(<<NL>>)), ReStr(<<"-">>), ReStar(ReSpace), RestOfLine >>)

\* lines 214 and 233: a numbered or bulleted line
ListItem ==
    ReSeq(<< ReAlt(ReBol, ReStr(<<NL>>)),
             ReAny(<< ReCat(RePlus(ReDigit), ReStr(<<".">>)), ReStr(<<"*">>), ReStr(<<"-">>) >>),
             ReStar(ReSpace), RestOfLine >>)

\* match.group(1).strip() of the first pattern found, "" standing for None
SectionOf(patterns, text) ==
    The({ IF m.found THEN Strip(Group(text, m, 1)) ELSE <<>> :
          m \in {FirstMatch(patterns, DotAllIgnoreCase, text)} })

\* the stripped list items of a section, or its stripped non-empty lines
SectionItems(section) ==
    IF section = <<>> THEN <<>>
    ELSE The({ IF items # <<>> THEN [k \in DOMAIN items |-> Strip(items[k])]
               ELSE StrippedLines(section) :
               items \in {re_findall_group(ListItem, NoFlags, section)} })

TitleOf(text) ==
    The({ IF m.found THEN Strip(Group(text, m, 1)) ELSE <<>> :
          m \in {FirstMatch(TitlePatterns, IgnoreCase, text)} })

ItemsOf(patterns, text) ==
    The({ SectionItems(section) : section \in {SectionOf(patterns, text)} })

parse_unstructured_recipe_text(text) ==
    The({ RecipeData(PyStr(title), PyStrList(clean_ingredients(ingredients)),
                     PyStrList(instructions)) :
          title \in {TitleOf(text)},
          ingredients \in {ItemsOf(IngredientsPatterns, text)},
          instructions \in {ItemsOf(InstructionsPatterns, text)} })

\* lines 245-246: the non-greedy {...} blocks of the answer
JsonBlock == ReSeq(<<ReStr(<<"{">>), ReLazyStar(ReNot({})), ReStr(<<"}">>)>>)

\* lines 249-251
ReplaceNewlines(x) == [i \in DOMAIN x |-> IF x[i] = NL THEN " " ELSE x[i]]
TrailingComma(close) == ReSeq(<<ReStr(<<",">>), ReStar(ReSpace), ReStr(<<close>>)>>)
FixJson(block) ==
    The({ re_sub(TrailingComma("]"), NoFlags, <<Ref(0, <<"]">>)>>, y) :
          y \in {re_sub(TrailingComma("}"), NoFlags, <<Ref(0, <<"}">>)>>,
                        ReplaceNewlines(block))} })

HasRequiredKeys(j) ==
    /\ j.ok
    /\ j.val.t = "obj"
    /\ {KeyTitle, KeyIngredients, KeyInstructions} \subseteq DOMAIN j.val.v

\* line 254-255; an exception other than JSONDecodeError leaves the loop for
\* the text parser
CleanedBlock(obj, text) ==
    The({ IF c.ok
          THEN The({ RecipeData(obj[KeyTitle], PyStrList(cleaned), obj[KeyInstructions]) :
                     cleaned \in {clean_ingredients(c.items)} })
          ELSE parse_unstructured_recipe_text(text) :
          c \in {StrItems(obj[KeyIngredients])} })

RECURSIVE TryBlocks(_, _)
TryBlocks(blocks, text) ==
    IF blocks = <<>> THEN parse_unstructured_recipe_text(text)
    ELSE The({ IF HasRequiredKeys(j) THEN CleanedBlock(j.val.v, text)
               ELSE TryBlocks(Tail(blocks), text) :
               j \in { The({ JsonLoads(fixed) : fixed \in {FixJson(Head(blocks))} }) } })

extract_recipe_from_llm_response(llm_response) ==
    The({ TryBlocks(blocks, llm_response) :
          blocks \in {re_findall(JsonBlock, NoFlags, llm_response)} })

(***************************************************************************)
(* ollama_chat_with_timeout (ollama_utils.py 14-32, main_backup.py 23-41): *)
(* the caller and the worker thread, one action per step of either.        *)
(***************************************************************************)
\* line 16; line 31 (a new dict, which has no "response" entry: None here)
FreshResult == [success |-> FALSE, response |-> None, error |-> None]
TimedOutResult == [success |-> FALSE, response |-> None, error |-> Some(<<"R", "e", "q", "u", "e", "s", "t", " ", "t", "i", "m", "e", "d", " ", "o",
          "u", "t">>)]

NoInput == [fetch |-> "none", chat |-> "none", text |-> <<>>, msg |-> <<>>]

\* lines 30-32: which dict the function returns, given thread.is_alive()
SharedDictAlways(alive) == "shared"

ReturnedDict(alive) == IF alive THEN "fresh" ELSE "shared"

\* the dict behind the returned reference, as the caller reads it now
Deref(r) == IF r = "fresh" THEN TimedOutResult ELSE result

\* target(), line 20: the model answers
WorkerChatReturns ==
    /\ wpc = "chat"
    /\ llmIn.chat = "text"
    /\ result' = [result EXCEPT !.response = Some(llmIn.text)]
    /\ wpc' = "responded"
    /\ UNCHANGED <<pipeline, llmIn, cpc, ret, joinExpired, outcome, seen>>

\* line 21
WorkerSetSuccess ==
    /\ wpc = "responded"
    /\ result' = [result EXCEPT !.success = TRUE]
    /\ wpc' = "finishing"
    /\ UNCHANGED <<pipeline, llmIn, cpc, ret, joinExpired, outcome, seen>>

\* lines 22-23: the client raises
WorkerChatRaises ==
    /\ wpc = "chat"
    /\ llmIn.chat = "raise"
    /\ result' = [result EXCEPT !.error = Some(llmIn.msg)]
    /\ wpc' = "finishing"
    /\ UNCHANGED <<pipeline, llmIn, cpc, ret, joinExpired, outcome, seen>>

\* target() has returned and the thread ends: is_alive() is False from here on
WorkerExit ==
    /\ wpc = "finishing"
    /\ wpc' = "dead"
    /\ UNCHANGED <<pipeline, llmIn, cpc, result, ret, joinExpired, outcome, seen>>

\* line 28: join returns because the thread has ended
JoinReturns ==
    /\ cpc = "join"
    /\ wpc = "dead"
    /\ cpc' = "check"
    /\ UNCHANGED <<pipeline, llmIn, wpc, result, ret, joinExpired, outcome, seen>>

\* line 28: join returns because the timeout has passed
JoinTimesOut ==
    /\ cpc = "join"
    /\ wpc # "dead"
    /\ joinExpired' = TRUE
    /\ cpc' = "check"
    /\ UNCHANGED <<pipeline, llmIn, wpc, result, ret, outcome, seen>>

\* lines 30-32
CheckAlive ==
    /\ cpc = "check"
    /\ ret' = ReturnedDict(wpc # "dead")
    /\ cpc' = "handle"
    /\ UNCHANGED <<pipeline, llmIn, wpc, result, joinExpired, outcome, seen>>

(***************************************************************************)
(* The two callers: extract_recipe_via_ollama and main_backup's endpoint   *)
(***************************************************************************)
FetchErrorFallback == <<"E", "r", "r", "o", "r", " ", "f", "e", "t", "c", "h", "i", "n", "g", " ",
          "U", "R", "L", " ", "f", "o", "r", " ", "f", "a", "l", "l", "b", "a", "c",
          "k", ":", " ">>
FetchError == <<"E", "r", "r", "o", "r", " ", "f", "e", "t", "c", "h", "i", "n", "g", " ",
          "U", "R", "L", ":", " ">>
LlmFailed == <<"L", "L", "M", " ", "p", "r", "o", "c", "e", "s", "s", "i", "n", "g", " ",
          "f", "a", "i", "l", "e", "d", ":", " ">>
ParseError == <<"E", "r", "r", "o", "r", " ", "p", "a", "r", "s", "i", "n", "g", " ", "L",
          "L", "M", " ", "r", "e", "s", "p", "o", "n", "s", "e", ":", " ">>
UnexpectedError == <<"U", "n", "e", "x", "p", "e", "c", "t", "e", "d", " ", "e", "r", "r", "o",
          "r", ":", " ">>
MsgNotIterable == <<"T", "y", "p", "e", "E", "r", "r", "o", "r", ":", " ", "'", "i", "n", "t",
          "'", " ", "o", "b", "j", "e", "c", "t", " ", "i", "s", " ", "n", "o", "t",
          " ", "i", "t", "e", "r", "a", "b", "l", "e">>
MsgNotStr == <<"T", "y", "p", "e", "E", "r", "r", "o", "r", ":", " ", "e", "x", "p", "e",
          "c", "t", "e", "d", " ", "s", "t", "r", "i", "n", "g", " ", "o", "r", " ",
          "b", "y", "t", "e", "s", "-", "l", "i", "k", "e", " ", "o", "b", "j", "e",
          "c", "t">>
MsgRecipeValidation == <<"V", "a", "l", "i", "d", "a", "t", "i", "o", "n", "E", "r", "r", "o", "r",
          ":", " ", "1", " ", "v", "a", "l", "i", "d", "a", "t", "i", "o", "n", " ",
          "e", "r", "r", "o", "r", " ", "f", "o", "r", " ", "R", "e", "c", "i", "p", "e">>
MsgFieldRequired == <<"1", " ", "v", "a", "l", "i", "d", "a", "t", "i", "o", "n", " ", "e", "r",
          "r", "o", "r", " ", "f", "o", "r", " ", "R", "e", "c", "i", "p", "e", " ",
          "o", "r", "i", "g", "i", "n", "a", "l", "_", "u", "r", "l", " ", "f", "i",
          "e", "l", "d", " ", "r", "e", "q", "u", "i", "r", "e", "d">>
MsgNone == <<"N", "o", "n", "e">>

\* llm_result.get('error', 'Unknown error') inside an f-string
ErrorText(r) == IF r.error = None THEN MsgNone ELSE The(r.error)

\* app/models/recipe.py: the fields of Recipe, all required; ollama_utils.py
\* lines 80-84 pass three of them
RecipeFields == {"title", "ingredients", "instructions", "original_url"}
PassedFields == {"title", "ingredients", "instructions"}

\* ollama_utils.py lines 76-86
OllamaParse(text) ==
    The({ IF ~j.ok THEN Raised(MsgJsonDecode)
          ELSE IF j.val.t # "obj" THEN Raised(MsgNoGet)
          ELSE The({ IF /\ RecipeFields \subseteq PassedFields
                        /\ ValidStr(title) /\ ValidStrList(ingredients)
                        /\ ValidStrList(instructions)
                     THEN Returned(ExtractedRecipe(title.v, StrListOf(ingredients),
                                                   StrListOf(instructions), None, None))
                     ELSE Raised(MsgFieldRequired) :
                     title \in {Get(j.val, KeyTitle, PyStr(<<>>))},
                     ingredients \in {Get(j.val, KeyIngredients, PyList(<<>>))},
                     instructions \in {Get(j.val, KeyInstructions, PyList(<<>>))} }) :
          j \in {JsonLoads(text)} })

\* ollama_utils.py lines 73-86
OllamaOutcome(r) ==
    IF ~r.success THEN HttpError(500, LlmFailed \o ErrorText(r))
    ELSE The({ IF p.ok THEN HttpOk(p.recipe) ELSE HttpError(500, ParseError \o p.msg) :
               p \in {OllamaParse(The(r.response))} })

\* main_backup.py lines 323-332
FinalRecipe(data) ==
    The({ IF ~ingredients.ok THEN Raised(MsgNotIterable)
          ELSE IF ~instructions.ok THEN Raised(MsgNotStr)
          ELSE IF ~ValidStr(data.title) THEN Raised(MsgRecipeValidation)
          ELSE Returned(ExtractedRecipe(data.title.v,
                                        clean_ingredients(ingredients.items),
                                        filter_instructions(instructions.items,
                                                            ingredients.items),
                                        None, None)) :
          ingredients \in {StrItems(data.ingredients)},
          instructions \in {StrItems(data.instructions)} })

\* main_backup.py lines 313-337; the HTTPException of line 314 is caught by
\* line 336 as every exception is
BackupOutcome(r) ==
    IF ~r.success
    THEN HttpError(500, UnexpectedError \o <<"H", "T", "T", "P", "E", "x", "c", "e", "p", "t", "i", "o", "n", ":", " ",
          "5", "0", "0", ":", " ">> \o LlmFailed \o ErrorText(r))
    ELSE The({ IF p.ok THEN HttpOk(p.recipe) ELSE HttpError(500, UnexpectedError \o p.msg) :
               p \in { The({ FinalRecipe(data) :
                              data \in {extract_recipe_from_llm_response(The(r.response))} }) } })

AllEmpty(recipe) ==
    recipe.title = <<>> /\ recipe.ingredients = <<>> /\ recipe.instructions = <<>>

\* did the pipeline's parser recover a recipe from the answer: for ollama_utils
\* the answer is JSON, for main_backup a recipe with some content came out
Recovers(text, o) ==
    IF pipeline = "ollama_utils" THEN JsonLoads(text).ok
    ELSE o.recipe # None /\ ~AllEmpty(The(o.recipe))

\* why the call ended as it did
Cause(r, o) ==
    IF r = TimedOutResult /\ ret = "fresh" THEN "timeout"
    ELSE IF ~r.success THEN "upstream"
    ELSE IF ~Recovers(The(r.response), o) THEN "malformed"
    ELSE "ok"

\* the kind of an outcome: the exception class is HTTPException throughout, so
\* the status code is what remains besides the message text
Kind(o) == o.status

Seen(cause, o) == [cause |-> cause, kind |-> Kind(o)]

\* a request: the page is fetched and preprocessed (ollama_utils.py 36-45,
\* main_backup.py 265-274) and ollama_chat_with_timeout starts the worker
\* (lines 16-27)
Request(in) ==
    /\ cpc \in {"idle", "done"}
    /\ llmIn' = in
    /\ result' = FreshResult
    /\ ret' = "none"
    /\ joinExpired' = FALSE
    /\ IF in.fetch = "fail"
       THEN /\ \E o \in { HttpError(400, (IF pipeline = "ollama_utils"
                                          THEN FetchErrorFallback ELSE FetchError) \o in.msg) } :
                  /\ outcome' = o
                  /\ seen' = seen \cup {Seen("fetch", o)}
            /\ cpc' = "done"
            /\ wpc' = "idle"
       ELSE /\ outcome' = HttpError(0, <<>>)
            /\ cpc' = "join"
            /\ wpc' = "chat"
            /\ UNCHANGED seen
    /\ UNCHANGED pipeline

\* the caller acts on what ollama_chat_with_timeout returned
Handle ==
    /\ cpc = "handle"
    /\ \E r \in {Deref(ret)} :
         \E o \in { IF pipeline = "ollama_utils" THEN OllamaOutcome(r) ELSE BackupOutcome(r) } :
            /\ outcome' = o
            /\ seen' = seen \cup {Seen(Cause(r, o), o)}
    /\ cpc' = "done"
    /\ UNCHANGED <<pipeline, llmIn, wpc, result, ret, joinExpired>>

\* what the model may answer
LlmTexts ==
    SchemaTexts \cup OtherTexts
    \cup { <<NL>>,
           <<"S", "o", "u", "p", " ", "I", "n", "g", "r", "e", "d", "i", "e", "n", "t",
          "s", ":", " ", "-", " ", "2", "e", "g", "g", "s", " ", "M", "e", "t", "h",
          "o", "d", ":", " ", "1", ".", " ", "M", "i", "x">>,
           <<"S", "o", " ", "{", QUOTE, "t", "i", "t", "l", "e", QUOTE, ":", " ", QUOTE,
          "T", QUOTE, ",", " ", QUOTE, "i", "n", "g", "r", "e", "d", "i", "e", "n",
          "t", "s", QUOTE, ":", " ", "[", QUOTE, "1", "c", "u", "p", " ", "a", QUOTE,
          ",", " ", "]", ",", " ", QUOTE, "i", "n", "s", "t", "r", "u", "c", "t", "i",
          "o", "n", "s", QUOTE, ":", " ", "[", QUOTE, "M", "i", "x", QUOTE, "]", "}">>,
           <<"{", QUOTE, "t", "i", "t", "l", "e", QUOTE, ":", " ", QUOTE, "T", QUOTE,
            ",", " ", QUOTE, "i", "n", "g", "r", "e", "d", "i", "e", "n", "t", "s",
            QUOTE, ":", " ", "3", ",", " ", QUOTE, "i", "n", "s", "t", "r", "u", "c",
            "t", "i", "o", "n", "s", QUOTE, ":", " ", "[", "]", "}">>,
           <<"{", QUOTE, "t", "i", "t", "l", "e", QUOTE, ":", " ", QUOTE, "T", QUOTE,
            ",", " ", QUOTE, "i", "n", "g", "r", "e", "d", "i", "e", "n", "t", "s",
            QUOTE, ":", " ", "[", QUOTE, "B", "B", "Q", QUOTE, "]", ",", " ", QUOTE,
            "i", "n", "s", "t", "r", "u", "c", "t", "i", "o", "n", "s", QUOTE, ":",
            " ", "[", QUOTE, "B", " ", "B", " ", "Q", QUOTE, ",", " ", QUOTE, "M", "i",
            "x", QUOTE, "]", "}">> }

LlmInputs ==
    { [NoInput EXCEPT !.fetch = "fail", !.msg = <<"4", "0", "4", " ", "C", "l", "i", "e", "n", "t", " ", "E", "r", "r", "o", "r">>] }
    \cup { [NoInput EXCEPT !.fetch = "ok", !.chat = "text", !.text = t] : t \in LlmTexts }
    \cup { [NoInput EXCEPT !.fetch = "ok", !.chat = "raise", !.msg = m] :
           m \in ModelErrorMessages \cup { <<"R", "e", "q", "u", "e", "s", "t", " ", "t", "i", "m", "e", "d", " ", "o",
          "u", "t">> } }

(***************************************************************************)
(* main_backup.py: the text functions called on their own                  *)
(***************************************************************************)
MaxIngredientLen == 4

\* the characters the ingredient strings are made of: a digit, a lowercase and
\* two uppercase letters, a space and a character of the class of line 48
IngredientChars == {"2", "a", "B", "Q", " ", "U+25A2"}

IngredientStrings ==
    UNION { [1..n -> IngredientChars] : n \in 0..MaxIngredientLen }

ExampleIngredientLists ==
    { << <<"2", "c", "u", "p", "s", " ", "f", "l", "o", "u", "r">>,
         <<"1", "c", "u", "p", "S", "u", "g", "a", "r">> >>,
      << <<"1", "c", "u", "p", "S", "u", "g", "a", "r">>,
         <<"2", "c", "u", "p", "s", " ", "f", "l", "o", "u", "r">> >>,
      << <<"2", "t", "b", "s", "p", "B", "B", "Q">>,
         <<"1", "2", "g", " ", "s", "a", "l", "t">>,
         <<"x", "2", "Y", "3", "z">> >>,
      << <<" ", " ", "3", " ", "e", "g", "g", "s", " ">>,
         <<"U+25A2", "2", "T", "b", "s", "p", " ", "o", "i", "l">>,
         <<"2", "c", "u", "p", "s", " ", "f", "l", "o", "u", "r">> >> }

IngredientLists == { <<x>> : x \in IngredientStrings } \cup ExampleIngredientLists

\* a call of fn with the argument arg, before it returns
Called(fn, arg) == [fn |-> fn, arg |-> arg, done |-> FALSE, val |-> <<>>]

\* clean_ingredients(ingredients) returns
ReturnCleanIngredients ==
    /\ call.fn = "clean_ingredients"
    /\ ~call.done
    /\ call' = [call EXCEPT !.done = TRUE, !.val = clean_ingredients(call.arg)]
    /\ UNCHANGED <<storeVars, extractVars, llmVars>>

\* the parts of a recipe written as text: titles, lists of ingredient lines and
\* lists of instruction lines
TextTitles ==
    { <<"P", "a", "n", "c", "a", "k", "e", "s">>,
      <<"B", "e", "s", "t", " ", "B", "B", "Q", " ", "2", "g", "o">> }

TextIngredients ==
    { << <<"1", " ", "c", "u", "p", " ", "f", "l", "o", "u", "r">>,
         <<"2", "e", "g", "g", "s">> >>,
      << <<"s", "a", "l", "t">> >>,
      << <<"2", "t", "b", "s", "p", "B", "B", "Q", " ", "s", "a", "u", "c", "e">>,
         <<"3", " ", "E", "g", "g", "s">>,
         <<"1", "2", "g", " ", "s", "u", "g", "a", "r">> >>,
      << <<"1", "c", "u", "p", "S", "u", "g", "a", "r">>,
         <<"1", " ", "c", "u", "p", " ", "f", "l", "o", "u", "r">> >> }

TextInstructions ==
    { << <<"M", "i", "x">>,
         <<"C", "o", "o", "k">> >>,
      << <<"B", "a", "k", "e", " ", "2", "0", "m", "i", "n">> >>,
      << <<"S", "t", "i", "r", " ", "i", "n", " ", "2", "e", "g", "g", "s">>,
         <<"S", "e", "r", "v", "e">>,
         <<"M", "i", "x">> >> }

MarkerStyles == {"dash", "star", "number"}

RecipeParts ==
    [title : TextTitles, ingredients : TextIngredients, instructions : TextInstructions]

\* the marker of the k-th line of a list: "- ", "* " or "k. "
Marker(style, k) ==
    CASE style = "dash" -> <<"-", " ">>
      [] style = "star" -> <<"*", " ">>
      [] style = "number" -> <<(<<"1", "2", "3", "4", "5", "6", "7", "8", "9">>)[k], ".", " ">>

RECURSIVE MarkedLines(_, _, _)
MarkedLines(style, items, k) ==
    IF k > Len(items) THEN <<>>
    ELSE Marker(style, k) \o items[k] \o <<NL>> \o MarkedLines(style, items, k + 1)

\* a 'Title:' line, an 'Ingredients:' header with its lines and an
\* 'Instructions:' header with its lines; the last line has no newline
FreeText(d, si, st) ==
    LET all == <<"T", "i", "t", "l", "e", ":", " ">> \o d.title \o <<NL>>
               \o <<"I", "n", "g", "r", "e", "d", "i", "e", "n", "t", "s", ":", NL>>
               \o MarkedLines(si, d.ingredients, 1)
               \o <<"I", "n", "s", "t", "r", "u", "c", "t", "i", "o", "n", "s", ":", NL>>
               \o MarkedLines(st, d.instructions, 1)
    IN  SubSeq(all, 1, Len(all) - 1)

FreeTexts == { FreeText(d, si, st) : d \in RecipeParts, si \in MarkerStyles, st \in MarkerStyles }

\* json.dumps of an object of the strict schema
JsonText(d) ==
    ObjectText(<< [k |-> KeyTitle, v |-> PyStr(d.title)],
                  [k |-> KeyIngredients, v |-> PyStrList(d.ingredients)],
                  [k |-> KeyInstructions, v |-> PyStrList(d.instructions)] >>)

JsonTexts == { JsonText(d) : d \in RecipeParts }

\* parse_unstructured_recipe_text(text) returns
ReturnParseUnstructured ==
    /\ call.fn = "parse_unstructured_recipe_text"
    /\ ~call.done
    /\ call' = [call EXCEPT !.done = TRUE,
                            !.val = parse_unstructured_recipe_text(call.arg)]
    /\ UNCHANGED <<storeVars, extractVars, llmVars>>

\* extract_recipe_from_llm_response(llm_response) returns
ReturnExtractFromLlmResponse ==
    /\ call.fn = "extract_recipe_from_llm_response"
    /\ ~call.done
    /\ call' = [call EXCEPT !.done = TRUE,
                            !.val = extract_recipe_from_llm_response(call.arg)]
    /\ UNCHANGED <<storeVars, extractVars, llmVars>>

(***************************************************************************)
(* Specifications                                                          *)
(***************************************************************************)
StoreInit ==
    /\ users = {}
    /\ recipes = {}
    /\ nextRecipeId = 1
    /\ mealPlans = {}
    /\ nextPlanId = 1
    /\ resp = Response("none", "nobody", <<>>, 0, {})
    /\ recipeCreator = {}
    /\ planCreator = {}
    /\ saved = {}
    /\ lastCascade = {}

ExtractIdle ==
    /\ allowedEmails = {}
    /\ ereq = [caller |-> "nobody", url |-> <<>>, scraper |-> NoScraper, video |-> NoVideo]
    /\ eresp = HttpError(0, <<>>)

LlmIdle ==
    /\ llmIn = NoInput
    /\ cpc = "idle"
    /\ wpc = "idle"
    /\ result = FreshResult
    /\ ret = "none"
    /\ joinExpired = FALSE
    /\ outcome = HttpError(0, <<>>)
    /\ seen = {}

NoCall == [fn |-> "none", arg |-> <<>>, done |-> FALSE, val |-> <<>>]

TextIdle == call = NoCall

\* the persistence handlers: any sequence of requests by any callers
Init == StoreInit /\ ExtractIdle /\ pipeline = "none" /\ LlmIdle /\ TextIdle

Next ==
    \/ \E e \in Emails : signup(e) /\ UNCHANGED <<extractVars, llmVars, textVars>>
    \/ \E u \in Emails, r \in StorePayloads : save_recipe(u, r) /\ UNCHANGED <<extractVars, llmVars, textVars>>
    \/ \E u \in Emails : get_user_recipes(u) /\ UNCHANGED <<extractVars, llmVars, textVars>>
    \/ \E u \in Emails, id \in 1..MaxRecipes : delete_recipe(u, id) /\ UNCHANGED <<extractVars, llmVars, textVars>>
    \/ \E u \in Emails, d \in Dates, m \in MealTypes,
          rid \in {None} \cup {Some(i) : i \in 1..MaxRecipes} :
            create_meal_plan(u, d, m, rid) /\ UNCHANGED <<extractVars, llmVars, textVars>>
    \/ \E u \in Emails, s \in Dates, e \in Dates :
            get_meal_plans(u, s, e) /\ UNCHANGED <<extractVars, llmVars, textVars>>
    \/ \E u \in Emails, id \in 1..MaxPlans : delete_meal_plan(u, id) /\ UNCHANGED <<extractVars, llmVars, textVars>>

Spec == Init /\ [][Next]_vars

\* saving and re-fetching recipes whose strings need JSON escaping
RoundTripLists ==
    << <<>>,
       << <<>> >>,
       << <<"2", " ", QUOTE, "a", QUOTE>>, <<"b", BSLASH, "n">> >>,
       << <<"b", BSLASH, "n">>, <<"2", " ", QUOTE, "a", QUOTE>> >>,
       << <<"c", EACUTE, NL, "d">>, <<"[", QUOTE, ",", " ", QUOTE, "]">>, <<BSLASH>> >>,
       << <<BSLASH, "u", "0", "0", "e", "9">>, <<",">>, <<"a">>, <<"a">> >> >>

RoundTripPayloads ==
    { ExtractedRecipe(<<"T", QUOTE, EACUTE>>, RoundTripLists[i],
                      RoundTripLists[(i % Len(RoundTripLists)) + 1], None, Some("img")) :
        i \in DOMAIN RoundTripLists }

RoundTripNext ==
    \/ \E e \in Emails : signup(e) /\ UNCHANGED <<extractVars, llmVars, textVars>>
    \/ \E u \in Emails, r \in RoundTripPayloads : save_recipe(u, r) /\ UNCHANGED <<extractVars, llmVars, textVars>>
    \/ \E u \in Emails : get_user_recipes(u) /\ UNCHANGED <<extractVars, llmVars, textVars>>
    \/ \E u \in Emails, id \in 1..MaxRecipes : delete_recipe(u, id) /\ UNCHANGED <<extractVars, llmVars, textVars>>

SpecRoundTrip == Init /\ [][RoundTripNext]_vars

\* the extraction endpoint: signed-up users, any ALLOWED_GPT_EMAILS, any requests
ExtractInit ==
    /\ StoreInit!2 /\ StoreInit!3 /\ StoreInit!4 /\ StoreInit!5 /\ StoreInit!6
    /\ StoreInit!7 /\ StoreInit!8 /\ StoreInit!9 /\ StoreInit!10
    /\ users \in { {"ann@x"}, Emails }
    /\ allowedEmails \in { {}, {"ann@x"} }
    /\ ereq = [caller |-> "nobody", url |-> <<>>, scraper |-> NoScraper, video |-> NoVideo]
    /\ eresp = HttpError(0, <<>>)
    /\ pipeline = "none"
    /\ LlmIdle
    /\ TextIdle

ExtractNext ==
    \/ \E u \in Emails, url \in SiteUrls, sc \in ScraperBehaviours :
          extract_recipe(u, url, sc, NoVideo) /\ UNCHANGED <<storeVars, llmVars, textVars>>
    \/ \E u \in Emails, url \in YoutubeUrls, v \in VideoBehaviours :
          extract_recipe(u, url, NoScraper, v) /\ UNCHANGED <<storeVars, llmVars, textVars>>

SpecExtract == ExtractInit /\ [][ExtractNext]_vars

\* the LLM pipeline of one of the two applications, call after call
LlmInit ==
    /\ StoreInit
    /\ ExtractIdle
    /\ pipeline \in {"ollama_utils", "main_backup"}
    /\ LlmIdle
    /\ TextIdle

\* the steps of the caller inside ollama_chat_with_timeout
CallerStep == JoinReturns \/ JoinTimesOut \/ CheckAlive

LlmNext ==
    \/ \E in \in LlmInputs : Request(in) /\ UNCHANGED <<storeVars, extractVars, textVars>>
    \/ WorkerChatReturns /\ UNCHANGED <<storeVars, extractVars, textVars>>
    \/ WorkerSetSuccess /\ UNCHANGED <<storeVars, extractVars, textVars>>
    \/ WorkerChatRaises /\ UNCHANGED <<storeVars, extractVars, textVars>>
    \/ WorkerExit /\ UNCHANGED <<storeVars, extractVars, textVars>>
    \/ JoinReturns /\ UNCHANGED <<storeVars, extractVars, textVars>>
    \/ JoinTimesOut /\ UNCHANGED <<storeVars, extractVars, textVars>>
    \/ CheckAlive /\ UNCHANGED <<storeVars, extractVars, textVars>>
    \/ Handle /\ UNCHANGED <<storeVars, extractVars, textVars>>

SpecLlm == LlmInit /\ [][LlmNext]_vars

\* the caller's own steps are taken: a join with a timeout returns, and the
\* statement after it runs. Nothing is assumed of the worker or of the model.
SpecLlmFair == SpecLlm /\ WF_vars(CallerStep /\ UNCHANGED <<storeVars, extractVars, textVars>>)

\* the text functions of main_backup.py, called with any of the inputs
TextInit ==
    /\ StoreInit
    /\ ExtractIdle
    /\ pipeline = "none"
    /\ LlmIdle
    /\ call \in { Called("clean_ingredients", x) : x \in IngredientLists }
              \cup { Called("parse_unstructured_recipe_text", x) : x \in FreeTexts \cup JsonTexts }
              \cup { Called("extract_recipe_from_llm_response", x) : x \in JsonTexts }

TextNext ==
    \/ ReturnCleanIngredients
    \/ ReturnParseUnstructured
    \/ ReturnExtractFromLlmResponse

SpecText == TextInit /\ [][TextNext]_vars

(***************************************************************************)
(* Properties of the extraction endpoint                                   *)
(***************************************************************************)
SiteRequest == ereq.caller \in users /\ ereq.scraper.kind # "none"
VideoRequest ==
    ereq.caller \in users /\ ereq.caller \in allowedEmails /\ ereq.video.kind = "llm_text"

\* the required keys the decoded text of the request lacks; {} when the text
\* is no JSON object
MissingKeys ==
    The({ IF j.ok /\ j.val.t = "obj"
          THEN {KeyTitle, KeyIngredients, KeyInstructions} \ DOMAIN j.val.v
          ELSE {} : j \in {JsonLoads(ereq.video.text)} })

\* C1: a request for a site without a registered scraper is never answered
\* with the scraper's UnsupportedSite signal as a terminal error: the response
\* is neither the "not supported" error nor an extraction error carrying the
\* scraper's message.
C1_UnsupportedSiteNotTerminal ==
    (SiteRequest /\ ereq.scraper.kind = "unsupported")
        => eresp.detail \notin {DetailUnsupported, DetailErrorPrefix \o ereq.scraper.msg}

\* C17: a YouTube URL requested by an authenticated user who is not in
\* ALLOWED_GPT_EMAILS is answered with status 403 and the detail "You are not
\* allowed to use this feature.".
C17_NotAllowedIsForbidden ==
    (IsYoutubeUrl(ereq.url) /\ Authenticated(ereq.caller) /\ ereq.caller \notin allowedEmails) =>
        /\ eresp.status = 403
        /\ eresp.detail = DetailNotAllowed

\* C5: when the model's text is a JSON object that lacks one of the keys
\* title, ingredients, instructions, no recipe is returned.
C5_MissingKeysAreParseFailure ==
    (VideoRequest /\ MissingKeys # {}) => eresp.recipe = None

\* C6: a failure of a matched strategy is never answered as an unsupported
\* site, and a missing strategy is never answered as an extraction error,
\* whatever the message of the exception says.
C6_ClassifiedByKindOnly ==
    /\ (SiteRequest /\ ereq.scraper.kind = "failed")
         => eresp.detail # DetailUnsupported
    /\ (SiteRequest /\ ereq.scraper.kind = "unsupported")
         => ~MatchAt(eresp.detail, 1, DetailErrorPrefix)

(***************************************************************************)
(* Properties of the LLM pipelines                                         *)
(***************************************************************************)
HasReturned == cpc \in {"handle", "done"} /\ ret # "none"

\* C2 as stated: whenever join ended by its timeout with the worker still
\* running, what ollama_chat_with_timeout returns is the timed-out failure.
C2_ExpiredJoinReturnsTimedOut ==
    (HasReturned /\ joinExpired) => Deref(ret) = TimedOutResult

\* the returned dict is the timed-out failure, or the shared dict of a worker
\* that has ended, which holds its answer or its error
C2_ReturnsTimedOutOrFinished ==
    HasReturned =>
        \/ ret = "fresh" /\ Deref(ret) = TimedOutResult
        \/ ret = "shared" /\ wpc = "dead" /\ (result.success \/ result.error # None)

\* the check of is_alive() with the worker still running returns the
\* timed-out failure
C2_AliveAtCheckTimesOut ==
    (cpc = "check" /\ cpc' = "handle" /\ wpc # "dead") => Deref(ret)' = TimedOutResult

\* no step changes what the returned reference shows
C2_ReturnedValueStable ==
    (HasReturned /\ HasReturned') => Deref(ret)' = Deref(ret)

\* C2: the caller never waits for the worker. From join it reaches the return
\* whatever the worker does (no step of the worker is assumed); if the worker
\* is still running when is_alive() is evaluated the caller returns the
\* timed-out failure, and otherwise the finished worker's own result; no later
\* step of the worker changes the value returned.
C2_CallerNeverWaits ==
    /\ []C2_ReturnsTimedOutOrFinished
    /\ [][C2_AliveAtCheckTimesOut]_vars
    /\ [][C2_ReturnedValueStable]_vars
    /\ (cpc = "join") ~> (cpc = "handle")

\* the join timed out, the caller returned the timed-out failure and handed
\* it on, and the worker completed afterwards with an answer
C2_Witness ==
    /\ joinExpired
    /\ cpc = "done"
    /\ ret = "fresh"
    /\ wpc = "dead"
    /\ result.success
    /\ outcome.status = 500

\* C3: the outcome of a call that timed out differs in kind from the outcome
\* of a call whose model raised an error and from the outcome of a call whose
\* answer could not be parsed.
C3_TimeoutIsADistinctKind ==
    pipeline = "ollama_utils" =>
        \A a, b \in seen :
            (a.cause = "timeout" /\ b.cause \in {"upstream", "malformed"})
                => a.kind # b.kind

\* C4: a call never ends with a recipe whose title, ingredients and
\* instructions are all empty: an answer from which nothing is recovered is
\* reported as a failure.
C4_UnrecoveredAnswerIsFailure ==
    (cpc = "done" /\ outcome.recipe # None) => ~AllEmpty(The(outcome.recipe))

\* C12: in a recipe returned by the main_backup endpoint no instruction equals,
\* ignoring case and surrounding whitespace, an ingredient of the same recipe.
C12_NoInstructionEqualsFinalIngredient ==
    (pipeline = "main_backup" /\ cpc = "done" /\ outcome.recipe # None) =>
        \A recipe \in outcome.recipe :
            ~\E i \in DOMAIN recipe.instructions :
                DuplicatesIngredient(recipe.instructions[i], recipe.ingredients)

(***************************************************************************)
(* Properties of the persistence handlers                                  *)
(***************************************************************************)

\* C7: every stored recipe and meal plan entry is owned by the authenticated
\* identity of the request that created it, ids are unique, and no step
\* changes the id or the owner of a row that exists: a row after a step is a
\* row of before with the same id and owner, or the row just created.
C7_OwnerIsCreator ==
    /\ \A r \in recipes : <<r.id, r.owner_email>> \in recipeCreator
    /\ \A p \in mealPlans : <<p.id, p.user_email>> \in planCreator
    /\ \A r1, r2 \in recipes : r1.id = r2.id => r1 = r2
    /\ \A p1, p2 \in mealPlans : p1.id = p2.id => p1 = p2

C7_RowsKeepIdAndOwner ==
    /\ \A r \in recipes' :
          \/ \E q \in recipes : q.id = r.id /\ q.owner_email = r.owner_email
          \/ r.id = nextRecipeId /\ nextRecipeId' = nextRecipeId + 1
    /\ \A p \in mealPlans' :
          \/ \E q \in mealPlans : q.id = p.id /\ q.user_email = p.user_email
          \/ p.id = nextPlanId /\ nextPlanId' = nextPlanId + 1

C7_OwnerFromAuthenticatedCaller ==
    []C7_OwnerIsCreator /\ [][C7_RowsKeepIdAndOwner]_vars

\* a recipe and a meal plan entry of two different owners are stored
C7_Witness ==
    \E r \in recipes, p \in mealPlans :
        /\ r.owner_email # p.user_email
        /\ <<r.id, r.owner_email>> \in recipeCreator
        /\ <<p.id, p.user_email>> \in planCreator

\* C11: a delete request of an authenticated caller for an id that does not
\* exist or belongs to another user is answered 404 and changes no stored
\* recipe and no meal plan entry; a request for a recipe of the caller is
\* answered 200 and removes exactly that one recipe, a recipe of the caller,
\* from the stored recipes.
C11_DeleteOnlyOwnRecipe ==
    (resp'.op = "delete_recipe" /\ resp'.caller \in users) =>
        LET u == resp'.caller
            id == resp'.args[1]
            own == { r \in recipes : r.id = id /\ r.owner_email = u }
        IN  IF own = {}
            THEN /\ resp'.status = 404
                 /\ recipes' = recipes
                 /\ mealPlans' = mealPlans
            ELSE /\ resp'.status = 200
                 /\ Cardinality(own) = 1
                 /\ recipes' = recipes \ own

C18_TitlesAreOfOwnRecipes ==
    (resp.op = "get_meal_plans" /\ resp.status = 200) =>
        \A e \in resp.body :
            e.recipe_title # None =>
                \E r \in recipes : /\ Some(r.id) = e.recipe_id
                                   /\ r.owner_email = resp.caller

\* C8: a successful listing of meal plans answers caller U with exactly the
\* stored entries owned by U whose date lies in [start_date, end_date], each
\* with the stored fields; an authenticated caller always gets the listing.
C8_ListingIsOwnEntriesInRange ==
    resp.op = "get_meal_plans" =>
        /\ resp.status = 200 <=> resp.caller \in users
        /\ resp.status # 200 => resp.body = {}
        /\ \A b \in resp.body :
              \E p \in mealPlans :
                  /\ p.id = b.id
                  /\ p.user_email = resp.caller
                  /\ p.date = b.date /\ p.meal_type = b.meal_type
                  /\ p.recipe_id = b.recipe_id
                  /\ resp.args[1] <= p.date /\ p.date <= resp.args[2]
        /\ resp.status = 200 =>
              \A p \in mealPlans :
                  (/\ p.user_email = resp.caller
                   /\ resp.args[1] <= p.date /\ p.date <= resp.args[2])
                  => \E b \in resp.body : b.id = p.id

\* a listing that leaves out an entry of another user dated inside the range
C8_Witness ==
    /\ resp.op = "get_meal_plans" /\ resp.status = 200
    /\ \E p \in mealPlans :
          /\ p.user_email # resp.caller
          /\ resp.args[1] <= p.date /\ p.date <= resp.args[2]
          /\ \A b \in resp.body : b.id # p.id

\* C9 as stated: after a successful delete of a recipe, every entry that
\* referenced it still exists, with recipe_id None.
C9_EntriesSurviveWithNullRecipe ==
    [][ (resp'.op = "delete_recipe" /\ resp'.status = 200) =>
            \A p \in mealPlans :
                p.recipe_id = Some(resp'.args[1]) =>
                    \E q \in mealPlans' : q.id = p.id /\ q.recipe_id = None ]_vars

\* C9 amended: a delete of a recipe by its owner succeeds whatever entries
\* reference it, the recipe is gone, every entry that referenced it is
\* deleted with it, and every other entry is left as it was.
C9_DeleteCascadesToEntries ==
    [][ (/\ resp'.op = "delete_recipe"
         /\ resp'.caller \in users
         /\ \E r \in recipes : r.id = resp'.args[1] /\ r.owner_email = resp'.caller)
        => /\ resp'.status = 200
           /\ \A r \in recipes' : r.id # resp'.args[1]
           /\ mealPlans' = { p \in mealPlans : p.recipe_id # Some(resp'.args[1]) } ]_vars

\* a recipe was deleted while a meal plan entry referenced it
C9_Witness ==
    /\ resp.op = "delete_recipe" /\ resp.status = 200
    /\ lastCascade # {}
    /\ \A p \in mealPlans : p.id \notin lastCascade

\* C10: a listing of U's recipes holds, for every recipe U saved and has not
\* deleted, a Recipe with the id the save returned and the saved title,
\* ingredients and instructions: same elements, same order, same characters.
C10_SavedRecipesRoundTrip ==
    (resp.op = "get_user_recipes" /\ resp.status # 401) =>
        /\ resp.status = 200
        /\ \A s \in saved :
              s.caller = resp.caller =>
                  \E b \in resp.body :
                      /\ b.id = s.id
                      /\ b.title = s.recipe.title
                      /\ b.ingredients = s.recipe.ingredients
                      /\ b.instructions = s.recipe.instructions

\* a listing that returns a saved recipe whose strings need escaping
C10_Witness ==
    /\ resp.op = "get_user_recipes" /\ resp.status = 200
    /\ \E s \in saved, b \in resp.body :
          /\ s.caller = resp.caller /\ b.id = s.id
          /\ Len(b.ingredients) >= 2
          /\ b.ingredients = s.recipe.ingredients
          /\ \E i \in DOMAIN b.ingredients :
                \E k \in DOMAIN b.ingredients[i] :
                    b.ingredients[i][k] \in {QUOTE, BSLASH, EACUTE, NL}

(***************************************************************************)
(* Properties of the text functions                                        *)
(***************************************************************************)
\* the characters of x that clean_ingredients neither removes nor may change:
\* all but the whitespace and the characters of the class of line 48
IsKept(c) == c \notin Whitespace /\ c \notin SpecialChars
Kept(x) == SelectSeq(x, IsKept)
KeptUpTo(x, i) == Cardinality({ j \in 1..i : IsKept(x[j]) })

\* a digit at position i of x with a letter of [a-zA-Z] right after it
DigitThenLetter(x, i) ==
    /\ i \in 1..(Len(x) - 1)
    /\ x[i] \in Digits
    /\ IsLetter(x[i + 1])

\* in y, the character that x has at position i is followed by exactly one
\* space and then by the character that x has at position i + 1
OneSpaceAfter(x, i, y) ==
    \E p \in 1..(Len(y) - 2) :
        /\ IsKept(y[p])
        /\ KeptUpTo(y, p) = KeptUpTo(x, i)
        /\ y[p] = x[i]
        /\ y[p + 1] = " "
        /\ y[p + 2] = x[i + 1]

\* C13: clean_ingredients returns one string per input string, in the same order
\* (each output holds the letters, digits and signs of the input at the same
\* index), and wherever an input has a digit immediately followed by a letter
\* a-z or A-Z, the output has exactly one space between that digit and that letter.
C13_OneSpaceBetweenDigitAndLetter ==
    (call.fn = "clean_ingredients" /\ call.done) =>
        /\ Len(call.val) = Len(call.arg)
        /\ \A k \in DOMAIN call.arg :
              /\ Kept(call.val[k]) = Kept(call.arg[k])
              /\ \A i \in DOMAIN call.arg[k] :
                    DigitThenLetter(call.arg[k], i) =>
                        OneSpaceAfter(call.arg[k], i, call.val[k])

C13_Witness ==
    /\ call.fn = "clean_ingredients"
    /\ call.done
    /\ Len(call.arg) = 2
    /\ call.arg[1] = <<"2", "c", "u", "p", "s", " ", "f", "l", "o", "u", "r">>
    /\ call.val[1] = <<"2", " ", "c", "u", "p", "s", " ", "f", "l", "o", "u", "r">>
    /\ call.val[2] = <<"1", " ", "c", "u", "p", " ", "S", "u", "g", "a", "r">>

\* what the claim expects of a text written from the parts d
ExpectedOfParts(d) ==
    RecipeData(PyStr(d.title), PyStrList(clean_ingredients(d.ingredients)),
               PyStrList(d.instructions))

\* C14: of a text with a 'Title:' line, an 'Ingredients:' header followed by
\* bulleted or numbered lines and an 'Instructions:' header followed by bulleted
\* or numbered lines, parse_unstructured_recipe_text returns the title text, the
\* ingredient lines in order without their markers and cleaned, and the
\* instruction lines in order without their markers.
C14_ParsesTitledSections ==
    (call.fn = "parse_unstructured_recipe_text" /\ call.done) =>
        \A d \in RecipeParts, si \in MarkerStyles, st \in MarkerStyles :
            call.arg = FreeText(d, si, st) => call.val = ExpectedOfParts(d)

C14_Witness ==
    /\ call.fn = "parse_unstructured_recipe_text"
    /\ call.done
    /\ call.arg = <<"T", "i", "t", "l", "e", ":", " ", "P", "a", "n", "c", "a", "k",
                      "e", "s", NL, "I", "n", "g", "r", "e", "d", "i", "e", "n", "t",
                      "s", ":", NL, "-", " ", "1", " ", "c", "u", "p", " ", "f", "l",
                      "o", "u", "r", NL, "-", " ", "2", "e", "g", "g", "s", NL, "I",
                      "n", "s", "t", "r", "u", "c", "t", "i", "o", "n", "s", ":", NL,
                      "1", ".", " ", "M", "i", "x", NL, "2", ".", " ", "C", "o", "o",
                      "k">>
    /\ call.val = RecipeData(PyStr(<<"P", "a", "n", "c", "a", "k", "e", "s">>),
                             PyStrList(<< <<"1", " ", "c", "u", "p", " ", "f", "l", "o", "u", "r">>, <<"2", " ", "e", "g", "g", "s">> >>),
                             PyStrList(<< <<"M", "i", "x">>, <<"C", "o", "o", "k">> >>))

\* json.loads(text) of an object of the strict schema, as title, ingredients
\* and instructions
DirectJson(text) ==
    The({ RecipeData(j.val.v[KeyTitle], j.val.v[KeyIngredients], j.val.v[KeyInstructions]) :
          j \in {JsonLoads(text)} })

\* C15: of a text that is a JSON object of the strict schema, the recovery
\* parser (called on its own, or after the JSON attempt of
\* extract_recipe_from_llm_response) returns the title, ingredients and
\* instructions that json.loads gives for the text.
C15_RecoveryAgreesWithDirectJson ==
    ( /\ call.fn \in {"parse_unstructured_recipe_text", "extract_recipe_from_llm_response"}
      /\ call.done
      /\ call.arg \in JsonTexts ) =>
        call.val = DirectJson(call.arg)

\* two letters at positions i and i + 1 of x
TwoLetters(x, i) ==
    /\ i \in 1..(Len(x) - 1)
    /\ IsLetter(x[i])
    /\ IsLetter(x[i + 1])

\* in y, the character that x has at position i is followed at once by the
\* character that x has at position i + 1
NoSpaceAfter(x, i, y) ==
    \E p \in 1..(Len(y) - 1) :
        /\ IsKept(y[p])
        /\ KeptUpTo(y, p) = KeptUpTo(x, i)
        /\ y[p] = x[i]
        /\ y[p + 1] = x[i + 1]

\* C16: between two adjacent letters of an ingredient clean_ingredients puts a
\* space when the first is lowercase and the second uppercase, and at no other
\* pair of letters (inside a run of uppercase letters, for one).
C16_SpaceOnlyAtLowerToUpper ==
    (call.fn = "clean_ingredients" /\ call.done) =>
        \A k \in DOMAIN call.arg :
            \A i \in DOMAIN call.arg[k] :
                TwoLetters(call.arg[k], i) =>
                    IF IsLower(call.arg[k][i]) /\ IsUpper(call.arg[k][i + 1])
                    THEN OneSpaceAfter(call.arg[k], i, call.val[k])
                    ELSE NoSpaceAfter(call.arg[k], i, call.val[k])

====
